---- MODULE Spec2Model ----
(***************************************************************************)
(* A model of the move-to-ts translation core.                             *)
(*   src/src/shared.rs     Context, name qualification, type tags          *)
(*   src/src/ast_to_ts.rs  module / struct / function / statement emitters *)
(*                          and the attribute-directive expander           *)
(* Names are sequences of one-character strings, so that capitalisation,   *)
(* renaming, joining with "." and the ordering of a BTreeSet<String> are   *)
(* computed, not assumed.  Emitted text is modelled as the sequence of     *)
(* target-language statements the writer calls produce.                    *)
(***************************************************************************)
EXTENDS Integers, Sequences, FiniteSets, TLC

\* ------------------------------------------------------------------ bounds
\* translate_module calls in one run
MaxTranslations == 3
\* references (calls into other modules) in one function body of the run model
MaxRefs == 2
\* statements (nested ones counted) in one function body of the body model
MaxStmts == 3
\* statements in the body of the loop of the loop model
MaxLoopBody == 2
\* evaluations of the loop condition in one execution of the emitted loop
MaxChecks == 3
\* parameters of the function a method directive names
MaxParams == 2

\* ----------------------------------------------------------------- strings
LowerCase == <<"a","b","c","d","e","f","g","h","i","j","k","l","m",
               "n","o","p","q","r","s","t","u","v","w","x","y","z">>
UpperCase == <<"A","B","C","D","E","F","G","H","I","J","K","L","M",
               "N","O","P","Q","R","S","T","U","V","W","X","Y","Z">>
\* the characters the model uses, in code-point order (String's Ord)
Chars == <<".","0","1","2","3","4","5","6","7","8","9">> \o UpperCase \o <<"_">> \o LowerCase

Code(ch) == CHOOSE i \in 1..Len(Chars) : Chars[i] = ch

\* s < t in the byte-wise lexicographic order of Rust strings
StrLt(s, t) ==
    \E i \in 1..Len(t) :
        /\ i - 1 <= Len(s)
        /\ \A j \in 1..(i - 1) : s[j] = t[j]
        /\ (i > Len(s) \/ Code(s[i]) < Code(t[i]))

\* iteration order of a BTreeSet<String>: ascending
RECURSIVE BTreeSet_iter(_)
BTreeSet_iter(S) ==
    IF S = {} THEN <<>>
    ELSE LET m == CHOOSE x \in S : \A y \in S \ {x} : StrLt(x, y)
         IN  <<m>> \o BTreeSet_iter(S \ {m})

ToUpper(ch) ==
    IF \E i \in 1..Len(LowerCase) : LowerCase[i] = ch
    THEN UpperCase[CHOOSE i \in 1..Len(LowerCase) : LowerCase[i] = ch]
    ELSE ch

\* utils::capitalize: upper-case the first character
capitalize(s) == IF s = <<>> THEN <<>> ELSE <<ToUpper(Head(s))>> \o Tail(s)

\* utils::rename: escape names that are reserved words of the target language
ReservedWords == { <<"n","e","w">>, <<"f","o","r">> }
rename(name) == IF name \in ReservedWords THEN name \o <<"_","_">> ELSE name

Dot == <<".">>

\* Option<T>
None == <<>>
Some(x) == <<x>>
is_some(o) == o # <<>>
unwrap(o) == o[1]

\* --------------------------------------------------------------- addresses
\* expansion::ast::Address: Numerical(Option<Name>, num) | NamedUnassigned(Name)
Numerical(name, num) == [kind |-> "Numerical", name |-> name, num |-> num]
NamedUnassigned(name) == [kind |-> "NamedUnassigned", name |-> Some(name), num |-> 0]

\* Address's own equality, which ignores the name of a numerical address
AddressEq(a1, a2) ==
    \/ a1.kind = "Numerical" /\ a2.kind = "Numerical" /\ a1.num = a2.num
    \/ a1.kind = "NamedUnassigned" /\ a2.kind = "NamedUnassigned" /\ a1.name = a2.name

is_same_package(a1, a2) ==
    IF a1.kind = "Numerical"
    THEN a2.kind = "Numerical" /\ a1.name = a2.name /\ a1.num = a2.num
    ELSE AddressEq(a1, a2)

ModuleIdent(address, module) == [address |-> address, module |-> module]

is_same_module(mi1, mi2) ==
    AddressEq(mi1.address, mi2.address) /\ mi1.module = mi2.module

HexDigits == <<"0","1","2","3","4","5","6","7","8","9">>
\* the hex literal of a (small) numerical address
to_hex_literal(num) == <<"0","x">> \o <<HexDigits[num + 1]>>

format_address(address) ==
    IF address.kind = "Numerical"
    THEN IF is_some(address.name) THEN unwrap(address.name)
         ELSE <<"X">> \o to_hex_literal(address.num)
    ELSE unwrap(address.name)

format_address_hex(address) ==
    IF address.kind = "Numerical" THEN to_hex_literal(address.num) ELSE <<>>

\* ----------------------------------------------------------------- Context
\* BTreeSet<ModuleIdent>::insert: an element equal under Ord is not replaced
BTreeSet_insert(set, mi) ==
    IF \E x \in set : is_same_module(x, mi) THEN set ELSE set \cup {mi}

BTreeSet_contains(set, mi) == \E x \in set : is_same_module(x, mi)

\* BTreeMap<String, Address> as a set of <<key, value>> pairs, one per key
BTreeMap_insert(map, key, value) == {p \in map : p[1] # key} \cup {<<key, value>>}

BTreeMap_keys(map) == {p[1] : p \in map}

Context_new(config, program) ==
    [ program |-> program,
      config |-> config,
      current_module |-> None,
      current_function_signature |-> None,
      same_package_imports |-> {},
      package_imports |-> {},
      visited_modules |-> {},
      visited_packages |-> {},
      tests |-> <<>>,
      cmds |-> <<>>,
      queries |-> <<>>,
      printer_methods |-> <<>>,
      all_shows_iter_tables |-> <<>> ]

\* variants of reset_for_module that the properties below must tell apart
\* from it: one keeps the test accumulator, one starts the registries anew,
\* one keeps the same-package imports
reset_keeping_tests(c, mname) ==
    [c EXCEPT !.current_module = Some(mname),
              !.same_package_imports = {},
              !.package_imports = {},
              !.visited_modules = BTreeSet_insert(@, mname),
              !.visited_packages =
                  BTreeMap_insert(@, format_address(mname.address), mname.address)]

reset_forgetting_registries(c, mname) ==
    [c EXCEPT !.current_module = Some(mname),
              !.same_package_imports = {},
              !.package_imports = {},
              !.tests = <<>>,
              !.visited_modules = {mname},
              !.visited_packages = {<<format_address(mname.address), mname.address>>}]

reset_keeping_imports(c, mname) ==
    [c EXCEPT !.current_module = Some(mname),
              !.package_imports = {},
              !.tests = <<>>,
              !.visited_modules = BTreeSet_insert(@, mname),
              !.visited_packages =
                  BTreeMap_insert(@, format_address(mname.address), mname.address)]

\* a reset that empties the cmds with the tests
reset_for_module_clearing_cmds(c, mname) ==
    [c EXCEPT !.current_module = Some(mname),
              !.same_package_imports = {},
              !.package_imports = {},
              !.tests = <<>>,
              !.cmds = <<>>,
              !.visited_modules = BTreeSet_insert(@, mname),
              !.visited_packages =
                  BTreeMap_insert(@, format_address(mname.address), mname.address)]

reset_for_module(c, mname) ==
    [c EXCEPT !.current_module = Some(mname),
              !.same_package_imports = {},
              !.package_imports = {},
              !.tests = <<>>,
              !.visited_modules = BTreeSet_insert(@, mname),
              !.visited_packages =
                  BTreeMap_insert(@, format_address(mname.address), mname.address)]

is_current_package(c, other) ==
    is_same_package(unwrap(c.current_module).address, other.address)

is_current_module(c, other) == is_same_module(unwrap(c.current_module), other)

add_same_package_import(c, modname) ==
    [c EXCEPT !.same_package_imports = @ \cup {modname}]

add_package_import(c, modname) ==
    [c EXCEPT !.package_imports = @ \cup {modname}]

add_query(c, mi, fname, f) ==
    [c EXCEPT !.queries = Append(@, [mi |-> mi, fname |-> fname, func |-> f])]

\* a variant of format_qualified_name that records every import of another
\* module in both sets
format_qualified_name_both_sets(mident, name, c) ==
    IF is_current_module(c, mident)
    THEN [c |-> c, out |-> rename(name)]
    ELSE IF is_current_package(c, mident)
    THEN [c |-> add_package_import(add_same_package_import(c, mident.module), mident.module),
          out |-> capitalize(mident.module) \o Dot \o rename(name)]
    ELSE [c |-> add_same_package_import(
                    add_package_import(c, format_address(mident.address)),
                    format_address(mident.address)),
          out |-> capitalize(format_address(mident.address)) \o Dot
                    \o capitalize(mident.module) \o Dot \o rename(name)]

\* the qualified (renamed) name of a declaration of module mident, and the
\* Context with the import it needs recorded
format_qualified_name(mident, name, c) ==
    IF is_current_module(c, mident)
    THEN [c |-> c, out |-> rename(name)]
    ELSE IF is_current_package(c, mident)
    THEN [c |-> add_same_package_import(c, mident.module),
          out |-> capitalize(mident.module) \o Dot \o rename(name)]
    ELSE LET package_name == format_address(mident.address)
         IN  [c |-> add_package_import(c, package_name),
              out |-> capitalize(package_name) \o Dot
                        \o capitalize(mident.module) \o Dot \o rename(name)]

\* ------------------------------------------------- translation results
\* The writer and the Context as one translation state; ok = FALSE once a
\* "Not Translatable" diagnostic was raised (derr!), msg its primary message.
derr(st, msg) == [st EXCEPT !.ok = FALSE, !.msg = msg]
emit(st, item) == [st EXCEPT !.w = Append(@, item)]
with_c(st, c) == [st EXCEPT !.c = c]
\* the "?" of the code: F runs only on a state no error was raised in
and_then(st, F(_)) == IF st.ok THEN F(st) ELSE st
\* a term written into the text: the Context the term left, and the item
\* made of the printed term
exp_then(st, r, Item(_)) == emit(with_c(st, r.c), Item(r.out))
\* the text the inner writes produced, wrapped into one item of the outer text
nest(outer, inner, Item(_)) == [inner EXCEPT !.w = Append(outer.w, Item(inner.w))]

\* ----------------------------------------------------------- expressions
\* hlir expressions, as far as the emitters of ast_to_ts.rs look into them:
\*   [k |-> "Unit"]                      the unit value
\*   [k |-> "Value", id |-> name]        any other expression, printed as id
\*   [k |-> "ModuleCall", m, f]          a call of function f of module m
\*   [k |-> "MoveTo", ty]                the builtin move_to<ty>(..)
\*   [k |-> "Borrow"], [k |-> "Dereference"]   left-hand sides of Mutate
is_exp_unit(exp) == exp.k = "Unit"

MoveToTerm == <<"m","o","v","e","_","t","o">>
UnitTerm == <<"u","n","i","t">>
RefTerm == <<"r","e","f">>

\* ast_exp's term(): the printed expression, and the Context with the
\* imports the expression's qualified names need
Exp_term(exp, c) ==
    CASE exp.k = "ModuleCall" -> format_qualified_name(exp.m, exp.f, c)
      [] exp.k = "Value"      -> [c |-> c, out |-> exp.id]
      [] exp.k = "MoveTo"     -> [c |-> c, out |-> MoveToTerm]
      [] exp.k = "Unit"       -> [c |-> c, out |-> UnitTerm]
      [] OTHER                -> [c |-> c, out |-> RefTerm]

\* ------------------------------------------------------------- statements
\* LValue:    [k |-> "Ignore"] | [k |-> "Var", var] | [k |-> "Unpack", fields]
\* Command:   Assign(lvalues, rhs) | Mutate(lhs, rhs) | Abort(exp) | Return(exp)
\*            | Break | Continue | IgnoreAndPop(exp) | Jump
\* Statement: Command(cmd) | IfElse(cond, if_block, else_block)
\*            | While(pre_block, cond, block) | Loop(block)
RECURSIVE is_empty_lvalue_list(_)
is_empty_lvalue_list(lvalues) ==
    \A i \in 1..Len(lvalues) :
        \/ lvalues[i].k = "Ignore"
        \/ lvalues[i].k = "Unpack" /\ is_empty_lvalue_list(lvalues[i].fields)

\* a variant that takes only a block without statements for empty
is_empty_block_without_unit(block) == block = <<>>

is_empty_block(block) ==
    \/ block = <<>>
    \/ /\ Len(block) = 1
       /\ block[1].k = "Command"
       /\ block[1].cmd.k = "IgnoreAndPop"
       /\ is_exp_unit(block[1].cmd.exp)

RECURSIVE identify_declared_vars_in_lvalue(_, _)
RECURSIVE identify_declared_vars_in_fields(_, _)
\* the loop over an Unpack's fields
identify_declared_vars_in_fields(fields, declared) ==
    IF fields = <<>> THEN declared
    ELSE LET lvalue == Head(fields)
             d == IF lvalue.k = "Var" THEN declared \cup {lvalue.var}
                  ELSE identify_declared_vars_in_lvalue(lvalue, declared)
         IN  identify_declared_vars_in_fields(Tail(fields), d)

identify_declared_vars_in_lvalue(lvalue, declared) ==
    IF lvalue.k = "Unpack"
    THEN identify_declared_vars_in_fields(lvalue.fields, declared)
    ELSE declared

RECURSIVE identify_declared_vars_in_lvalues(_, _)
identify_declared_vars_in_lvalues(lvalues, declared) ==
    IF lvalues = <<>> THEN declared
    ELSE identify_declared_vars_in_lvalues(Tail(lvalues),
             identify_declared_vars_in_lvalue(Head(lvalues), declared))

identify_declared_vars_in_cmd(cmd, declared) ==
    IF cmd.k = "Assign"
    THEN identify_declared_vars_in_lvalues(cmd.lvalues, declared)
    ELSE declared

RECURSIVE identify_declared_vars_in_stmt(_, _)
RECURSIVE identify_declared_vars_in_block(_, _)
\* a variant that does not look into the pre-block of a while
identify_declared_vars_skipping_pre_block(stmt, declared) ==
    CASE stmt.k = "Command" -> identify_declared_vars_in_cmd(stmt.cmd, declared)
      [] stmt.k = "IfElse" ->
            identify_declared_vars_in_block(stmt.else_block,
                identify_declared_vars_in_block(stmt.if_block, declared))
      [] stmt.k = "While" -> identify_declared_vars_in_block(stmt.block, declared)
      [] stmt.k = "Loop" -> identify_declared_vars_in_block(stmt.block, declared)

identify_declared_vars_in_stmt(stmt, declared) ==
    CASE stmt.k = "Command" -> identify_declared_vars_in_cmd(stmt.cmd, declared)
      [] stmt.k = "IfElse" ->
            identify_declared_vars_in_block(stmt.else_block,
                identify_declared_vars_in_block(stmt.if_block, declared))
      [] stmt.k = "While" ->
            identify_declared_vars_in_block(stmt.pre_block,
                identify_declared_vars_in_block(stmt.block, declared))
      [] stmt.k = "Loop" -> identify_declared_vars_in_block(stmt.block, declared)

identify_declared_vars_in_block(block, declared) ==
    IF block = <<>> THEN declared
    ELSE identify_declared_vars_in_block(Tail(block),
             identify_declared_vars_in_stmt(Head(block), declared))

TrueLit == <<"t","r","u","e">>

\* The emitted statements:
\*   [k |-> "let", names]                  let a, b;
\*   [k |-> "expr", e]                     e;
\*   [k |-> "assign", decl, lhs, rhs]      [let ]lhs = rhs;
\*   [k |-> "store", lhs, rhs]             lhs = rhs;      (through a borrow)
\*   [k |-> "set", lhs, rhs]               $.set(lhs, rhs);
\*   [k |-> "throw", e]  [k |-> "return", e]  [k |-> "break"]  [k |-> "continue"]
\*   [k |-> "if", test, then, else]        if (test) {then} [else {else}]
\*   [k |-> "if_break", test]              if (test) break;
\*   [k |-> "while", test, body]           while (test) {body}
\*   [k |-> "block", stmts]                {stmts}
\* A test is [neg, paren, e]: e, !e or !(e).
Command_write_ts(cmd, st) ==
    CASE cmd.k = "Assign" ->
            exp_then(st, Exp_term(cmd.rhs, st.c),
                     LAMBDA rhs :
                        IF is_empty_lvalue_list(cmd.lvalues)
                        THEN [k |-> "expr", e |-> rhs]
                        ELSE [k |-> "assign",
                              decl |-> (Len(cmd.lvalues) = 1 /\ cmd.lvalues[1].k = "Unpack"),
                              lhs |-> cmd.lvalues,
                              rhs |-> rhs])
      [] cmd.k = "Mutate" ->
            IF cmd.lhs.k = "Dereference"
            THEN derr(st, "Dereference in Mutate not implemented yet")
            ELSE LET value(lhs) ==
                         exp_then(st, Exp_term(cmd.rhs, lhs.c),
                                  LAMBDA rhs :
                                     [k |-> IF cmd.lhs.k = "Borrow" THEN "store" ELSE "set",
                                      lhs |-> lhs.out, rhs |-> rhs])
                 IN  value(Exp_term(cmd.lhs, st.c))
      [] cmd.k = "Abort" ->
            exp_then(st, Exp_term(cmd.exp, st.c), LAMBDA e : [k |-> "throw", e |-> e])
      [] cmd.k = "Return" ->
            IF is_exp_unit(cmd.exp)
            THEN emit(st, [k |-> "return", e |-> None])
            ELSE exp_then(st, Exp_term(cmd.exp, st.c),
                          LAMBDA e : [k |-> "return", e |-> Some(e)])
      [] cmd.k = "Break" -> emit(st, [k |-> "break"])
      [] cmd.k = "Continue" -> emit(st, [k |-> "continue"])
      [] cmd.k = "IgnoreAndPop" ->
            IF is_exp_unit(cmd.exp)
            THEN st
            ELSE exp_then(st, Exp_term(cmd.exp, st.c), LAMBDA e : [k |-> "expr", e |-> e])
      [] OTHER -> derr(st, "Unsupported Command (Jump)")

RECURSIVE Statement_write_ts(_, _)
RECURSIVE Statements_write_ts(_, _)

\* "for stmt in block.iter() { stmt.write_ts(w, c)?; }"
Statements_write_ts(stmts, st) ==
    IF stmts = <<>> \/ ~st.ok THEN st
    ELSE Statements_write_ts(Tail(stmts), Statement_write_ts(Head(stmts), st))

\* the statements of a block, translated on their own: st.w is the list
Block_stmts(block, st) == Statements_write_ts(block, [st EXCEPT !.w = <<>>])

\* Block::write_ts: "{", the statements, "}"
Block_write_ts(block, st) ==
    nest(st, Block_stmts(block, st), LAMBDA ws : [k |-> "block", stmts |-> ws])

\* a variant of the loop with a pre-block that tests the condition first
write_while_testing_first(stmt, st) ==
    LET leave(s) ==
            exp_then(s, Exp_term(stmt.cond, s.c),
                     LAMBDA e : [k |-> "if_break",
                                 test |-> [neg |-> TRUE, paren |-> TRUE, e |-> e]])
        pre(s) == Block_write_ts(stmt.pre_block, s)
        body(s) == Block_write_ts(stmt.block, s)
    IN  nest(st, and_then(and_then(leave([st EXCEPT !.w = <<>>]), pre), body),
             LAMBDA ws : [k |-> "while", test |-> TrueLit, body |-> ws])

\* the While arm for a non-empty pre-block: while (true), and in its block
\* the pre-block, "if (!(cond)) break;" and the body
write_while_with_pre_block(stmt, st) ==
    LET leave(pre) ==
            exp_then(pre, Exp_term(stmt.cond, pre.c),
                     LAMBDA e : [k |-> "if_break",
                                 test |-> [neg |-> TRUE, paren |-> TRUE, e |-> e]])
        body(s) == Block_write_ts(stmt.block, s)
    IN  nest(st,
             and_then(and_then(
                 Block_write_ts(stmt.pre_block, [st EXCEPT !.w = <<>>]), leave), body),
             LAMBDA ws : [k |-> "while", test |-> TrueLit, body |-> ws])

\* an else that is written only for a block that is_empty_block takes for
\* not empty
has_else_unless_empty(else_block) == ~is_empty_block(else_block)

\* else_block.len() > 0
has_else(else_block) == Len(else_block) > 0

Statement_write_ts(stmt, st) ==
    CASE stmt.k = "Command" -> Command_write_ts(stmt.cmd, st)
      [] stmt.k = "IfElse" ->
            LET if_else(e, then, else) ==
                    nest(st, else,
                         LAMBDA ws :
                            [k |-> "if",
                             test |-> [neg |-> FALSE, paren |-> FALSE, e |-> e],
                             then |-> then.w,
                             else |-> IF has_else(stmt.else_block) THEN Some(ws) ELSE None])
                if_then(e, then) ==
                    if_else(e, then,
                            IF then.ok /\ has_else(stmt.else_block)
                            THEN Block_stmts(stmt.else_block, then) ELSE then)
                if_not(e, else) ==
                    nest(st, else,
                         LAMBDA ws :
                            [k |-> "if",
                             test |-> [neg |-> TRUE, paren |-> FALSE, e |-> e],
                             then |-> ws,
                             else |-> None])
                branches(cond) ==
                    IF ~is_empty_block(stmt.if_block)
                    THEN if_then(cond.out, Block_stmts(stmt.if_block, with_c(st, cond.c)))
                    ELSE if_not(cond.out, Block_stmts(stmt.else_block, with_c(st, cond.c)))
            IN  branches(Exp_term(stmt.cond, st.c))
      [] stmt.k = "While" ->
            LET has_pre_block == Len(stmt.pre_block) > 0
                body(s) == Block_write_ts(stmt.block, s)
                plain(cond) ==
                    nest(st, body([with_c(st, cond.c) EXCEPT !.w = <<>>]),
                         LAMBDA ws : [k |-> "while", test |-> cond.out, body |-> ws])
            IN  IF has_pre_block
                THEN write_while_with_pre_block(stmt, st)
                ELSE plain(Exp_term(stmt.cond, st.c))
      [] stmt.k = "Loop" ->
            nest(st, Block_stmts(stmt.block, st),
                 LAMBDA ws : [k |-> "while", test |-> TrueLit, body |-> ws])

\* the names of seq that satisfy keep, in order
RECURSIVE filter_not_in(_, _)
filter_not_in(seq, set) ==
    IF seq = <<>> THEN <<>>
    ELSE (IF Head(seq) \in set THEN <<>> ELSE <<Head(seq)>>)
            \o filter_not_in(Tail(seq), set)

RECURSIVE map_rename(_)
map_rename(seq) ==
    IF seq = <<>> THEN <<>> ELSE <<rename(Head(seq))>> \o map_rename(Tail(seq))

write_func_body(block, new_vars, st) ==
    LET declared_vars == identify_declared_vars_in_block(block, {})
        undeclared == filter_not_in(new_vars, declared_vars)
        hoist == IF Len(undeclared) > 0
                 THEN <<[k |-> "let", names |-> map_rename(undeclared)]>>
                 ELSE <<>>
    IN  nest(st, Statements_write_ts(block, [st EXCEPT !.w = hoist]),
             LAMBDA ws : [k |-> "block", stmts |-> ws])

\* ------------------------------------------------------------------ types
\* BaseType:   [k |-> "Param", name] | [k |-> "Builtin", b, args]
\*             | [k |-> "ModuleType", m, s, args] | [k |-> "UnresolvedError"]
\*   with b one of Bool, U8, U64, U128, Address, Signer, Vector
\* SingleType: [ref |-> BOOLEAN, base |-> BaseType]
\* Type:       [k |-> "Unit"] | [k |-> "Single", ty |-> SingleType] | [k |-> "Multiple"]
Param(name) == [k |-> "Param", name |-> name]
Builtin(b, args) == [k |-> "Builtin", b |-> b, args |-> args]
ModuleType(m, s, args) == [k |-> "ModuleType", m |-> m, s |-> s, args |-> args]
Base(base) == [ref |-> FALSE, base |-> base]
Ref(base) == [ref |-> TRUE, base |-> base]
UnitType == [k |-> "Unit"]
SingleT(ty) == [k |-> "Single", ty |-> ty]

\* position (from 0) of the first type parameter named name, as an Option
find_position(names, name) ==
    IF \E i \in 1..Len(names) : names[i] = name
    THEN Some((CHOOSE i \in 1..Len(names) :
                  names[i] = name /\ \A j \in 1..(i - 1) : names[j] # name) - 1)
    ELSE None

get_tparam_index(c, tparam) ==
    IF c.current_function_signature = None THEN None
    ELSE find_position(unwrap(c.current_function_signature).type_parameters, tparam)

\* A term result: res is "Ok" (with out), "Err" (a diagnostic, msg) or
\* "Panic" (unwrap of None, unreachable!, index out of bounds).
TOk(c, out) == [res |-> "Ok", c |-> c, out |-> out, msg |-> ""]
TErr(c, msg) == [res |-> "Err", c |-> c, out |-> <<>>, msg |-> msg]
TPanic(c) == [res |-> "Panic", c |-> c, out |-> <<>>, msg |-> "panic"]
\* the "?" on a term result: F continues from a term that was produced
t_then(r, F(_)) == IF r.res # "Ok" THEN r ELSE F(r)

\* fold a term result into the translation state
after(st, r) ==
    [st EXCEPT !.c = r.c,
               !.ok = (r.res = "Ok"),
               !.msg = r.msg,
               !.panic = (r.res = "Panic")]

\* write!(w, "{}", term?): the term is written when it was produced
emit_term(st, r, Item(_)) ==
    IF r.res # "Ok" THEN after(st, r) ELSE emit(after(st, r), Item(r.out))

\* a term taken into the translation: F continues with the state the term
\* left and the printed term
after_term(st, r, F(_, _)) ==
    IF r.res # "Ok" THEN after(st, r) ELSE F(after(st, r), r.out)

\* ast_exp's base_type_to_tstype: the target-language type; a struct type is
\* printed by its qualified name, which records the import it needs
RECURSIVE base_type_to_tstype(_, _)
RECURSIVE base_types_to_tstype(_, _)
base_types_to_tstype(tys, c) ==
    IF tys = <<>> THEN TOk(c, <<>>)
    ELSE t_then(base_type_to_tstype(Head(tys), c),
                LAMBDA r : base_types_to_tstype(Tail(tys), r.c))

base_type_to_tstype(ty, c) ==
    CASE ty.k = "Param" -> TOk(c, <<"a","n","y">>)
      [] ty.k = "Builtin" ->
            t_then(base_types_to_tstype(ty.args, c), LAMBDA r : TOk(r.c, <<ty.b>>))
      [] ty.k = "ModuleType" ->
            LET args(q) ==
                    t_then(base_types_to_tstype(ty.args, q.c), LAMBDA r : TOk(r.c, q.out))
            IN  args(format_qualified_name(ty.m, ty.s, c))
      [] OTHER -> TErr(c, "Received Unresolved Type")

single_type_to_tstype(ty, c) == base_type_to_tstype(ty.base, c)

type_to_tstype(ty, c) ==
    CASE ty.k = "Unit" -> TOk(c, <<"v","o","i","d">>)
      [] ty.k = "Single" -> single_type_to_tstype(ty.ty, c)
      [] OTHER -> TOk(c, <<"t","u","p","l","e">>)

\* The tag expressions:
\*   [t |-> "TypeParamIdx", idx]   new $.TypeParamIdx(idx)
\*   [t |-> "p", idx]              $p[idx]
\*   [t |-> "Atomic", b]           AtomicTypeTag.b
\*   [t |-> "Vector", inner]       new VectorTag(inner)
\*   [t |-> "Struct", address, module, name, tparams]   new StructTag(..)
RECURSIVE base_type_to_typetag_builder(_, _, _)
RECURSIVE base_types_to_typetag_builder(_, _, _)
\* comma_term over the type arguments
base_types_to_typetag_builder(tys, tparams, c) ==
    IF tys = <<>> THEN TOk(c, <<>>)
    ELSE t_then(base_type_to_typetag_builder(Head(tys), tparams, c),
                LAMBDA r :
                   t_then(base_types_to_typetag_builder(Tail(tys), tparams, r.c),
                          LAMBDA rs : TOk(rs.c, <<r.out>> \o rs.out)))

base_type_to_typetag_builder(base_ty, tparams, c) ==
    CASE base_ty.k = "Param" ->
            LET idx == find_position(tparams, base_ty.name)
            IN  IF idx = None THEN TPanic(c)
                ELSE TOk(c, [t |-> "TypeParamIdx", idx |-> unwrap(idx)])
      [] base_ty.k = "Builtin" ->
            IF base_ty.b = "Vector"
            THEN IF Len(base_ty.args) # 1 THEN TPanic(c)
                 ELSE t_then(base_type_to_typetag_builder(base_ty.args[1], tparams, c),
                             LAMBDA inner : TOk(inner.c, [t |-> "Vector", inner |-> inner.out]))
            ELSE TOk(c, [t |-> "Atomic", b |-> base_ty.b])
      [] base_ty.k = "ModuleType" ->
            t_then(base_types_to_typetag_builder(base_ty.args, tparams, c),
                   LAMBDA ts :
                      TOk(ts.c, [t |-> "Struct",
                                 address |-> format_address_hex(base_ty.m.address),
                                 module |-> base_ty.m.module,
                                 name |-> base_ty.s,
                                 tparams |-> ts.out]))
      [] OTHER -> TErr(c, "Received Unresolved Type")

RECURSIVE base_type_to_typetag(_, _)
RECURSIVE base_types_to_typetag(_, _)
\* a runtime mode that takes a type that is not resolved for u8
base_type_to_typetag_defaulting(base_ty, c) ==
    CASE base_ty.k = "Param" ->
            LET idx == get_tparam_index(c, base_ty.name)
            IN  IF idx = None THEN TPanic(c)
                ELSE TOk(c, [t |-> "p", idx |-> unwrap(idx)])
      [] base_ty.k = "Builtin" ->
            IF base_ty.b = "Vector"
            THEN IF Len(base_ty.args) # 1 THEN TPanic(c)
                 ELSE t_then(base_type_to_typetag(base_ty.args[1], c),
                             LAMBDA inner : TOk(inner.c, [t |-> "Vector", inner |-> inner.out]))
            ELSE TOk(c, [t |-> "Atomic", b |-> base_ty.b])
      [] base_ty.k = "ModuleType" ->
            t_then(base_types_to_typetag(base_ty.args, c),
                   LAMBDA ts :
                      TOk(ts.c, [t |-> "Struct",
                                 address |-> format_address_hex(base_ty.m.address),
                                 module |-> base_ty.m.module,
                                 name |-> base_ty.s,
                                 tparams |-> ts.out]))
      [] OTHER -> TOk(c, [t |-> "Atomic", b |-> "U8"])

base_types_to_typetag(tys, c) ==
    IF tys = <<>> THEN TOk(c, <<>>)
    ELSE t_then(base_type_to_typetag(Head(tys), c),
                LAMBDA r :
                   t_then(base_types_to_typetag(Tail(tys), r.c),
                          LAMBDA rs : TOk(rs.c, <<r.out>> \o rs.out)))

base_type_to_typetag(base_ty, c) ==
    CASE base_ty.k = "Param" ->
            LET idx == get_tparam_index(c, base_ty.name)
            IN  IF idx = None THEN TPanic(c)
                ELSE TOk(c, [t |-> "p", idx |-> unwrap(idx)])
      [] base_ty.k = "Builtin" ->
            IF base_ty.b = "Vector"
            THEN IF Len(base_ty.args) # 1 THEN TPanic(c)
                 ELSE t_then(base_type_to_typetag(base_ty.args[1], c),
                             LAMBDA inner : TOk(inner.c, [t |-> "Vector", inner |-> inner.out]))
            ELSE TOk(c, [t |-> "Atomic", b |-> base_ty.b])
      [] base_ty.k = "ModuleType" ->
            t_then(base_types_to_typetag(base_ty.args, c),
                   LAMBDA ts :
                      TOk(ts.c, [t |-> "Struct",
                                 address |-> format_address_hex(base_ty.m.address),
                                 module |-> base_ty.m.module,
                                 name |-> base_ty.s,
                                 tparams |-> ts.out]))
      [] OTHER -> TErr(c, "Received Unresolved Type")

\* -------------------------------------------------------------- functions
\* Function: [name, type_parameters, parameters, return_type, entry, native,
\*            locals, body, attributes]; a parameter is [name, ty]; the
\* signature is its type_parameters, parameters and return_type.
\* Attribute: [name, value] with value [k |-> "Name", n] | [k |-> "Assigned", v]
\*            | [k |-> "Parameterized", inner]; sequences are in key order.
signature(f) ==
    [type_parameters |-> f.type_parameters,
     parameters |-> f.parameters,
     return_type |-> f.return_type]

is_base_type_signer(ty) == ty.k = "Builtin" /\ ty.b = "Signer"

is_type_signer(ty) == is_base_type_signer(ty.base)

RECURSIVE write_parameters_from(_, _, _, _, _)
\* the loop of write_parameters from parameter idx on
write_parameters_from(params, idx, st, skip_signer, skip_first) ==
    IF idx > Len(params) \/ ~st.ok THEN st
    ELSE IF (skip_signer /\ is_type_signer(params[idx].ty)) \/ (skip_first /\ idx = 1)
    THEN write_parameters_from(params, idx + 1, st, skip_signer, skip_first)
    ELSE write_parameters_from(params, idx + 1,
             emit_term(st, single_type_to_tstype(params[idx].ty, st.c),
                       LAMBDA ty : [k |-> "param",
                                    name |-> rename(params[idx].name),
                                    ty |-> ty]),
             skip_signer, skip_first)

write_parameters(sig, st, skip_signer, skip_first) ==
    write_parameters_from(sig.parameters, 1, st, skip_signer, skip_first)

\* A handler result: [res |-> "Ok", out] | [res |-> "Err"] | [res |-> "Panic"]
HOk(out) == [res |-> "Ok", out |-> out]
HErr == [res |-> "Err", out |-> <<>>]
HPanic == [res |-> "Panic", out |-> <<>>]

Atomics == {"Bool", "Address", "U8", "U64", "U128"}

RECURSIVE get_ts_handler_for_vector_in_vector(_)
get_ts_handler_for_vector_in_vector(inner_ty) ==
    IF inner_ty.k = "Builtin"
    THEN CASE inner_ty.b = "U8" -> HOk(<<"u8ArrayArg">>)
           [] inner_ty.b \in Atomics \ {"U8"} -> HOk(<<"map", "payloadArg">>)
           [] inner_ty.b = "Signer" -> HPanic
           [] inner_ty.b = "Vector" ->
                 IF Len(inner_ty.args) # 1 THEN HPanic
                 ELSE LET inner_map == get_ts_handler_for_vector_in_vector(inner_ty.args[1])
                      IN  IF inner_map.res # "Ok" THEN inner_map
                          ELSE HOk(<<"map">> \o inner_map.out)
    ELSE HErr

get_ts_handler_for_script_function_param(name, ty) ==
    IF ty.base.k = "Builtin"
    THEN CASE ty.base.b \in Atomics -> HOk(<<"payloadArg">>)
           [] ty.base.b = "Signer" -> HPanic
           [] ty.base.b = "Vector" ->
                 IF Len(ty.base.args) # 1 THEN HPanic
                 ELSE LET inner == ty.base.args[1]
                      IN  IF inner.k = "Builtin"
                          THEN CASE inner.b = "U8" -> HOk(<<"u8ArrayArg">>)
                                 [] inner.b \in Atomics \ {"U8"} -> HOk(<<"map", "payloadArg">>)
                                 [] inner.b = "Signer" -> HPanic
                                 [] inner.b = "Vector" ->
                                       IF Len(inner.args) # 1 THEN HPanic
                                       ELSE LET inner_map ==
                                                  get_ts_handler_for_vector_in_vector(inner.args[1])
                                            IN  IF inner_map.res # "Ok" THEN inner_map
                                                ELSE HOk(<<"map">> \o inner_map.out)
                          ELSE HErr
    ELSE HErr

RECURSIVE script_function_has_valid_parameter_from(_, _)
\* "Ok" (true), "Err" (false) or "Panic", deciding parameter idx and the later ones
script_function_has_valid_parameter_from(params, idx) ==
    IF idx > Len(params) THEN "Ok"
    ELSE IF is_type_signer(params[idx].ty)
    THEN script_function_has_valid_parameter_from(params, idx + 1)
    ELSE LET ts_handler ==
                 get_ts_handler_for_script_function_param(params[idx].name, params[idx].ty)
         IN  IF ts_handler.res # "Ok" THEN ts_handler.res
             ELSE script_function_has_valid_parameter_from(params, idx + 1)

script_function_has_valid_parameter(sig) ==
    script_function_has_valid_parameter_from(sig.parameters, 1)

RECURSIVE params_no_signers(_)
params_no_signers(params) ==
    IF params = <<>> THEN <<>>
    ELSE (IF is_type_signer(Head(params).ty) THEN <<>> ELSE <<Head(params)>>)
            \o params_no_signers(Tail(params))

RECURSIVE param_names(_)
param_names(params) ==
    IF params = <<>> THEN <<>> ELSE <<Head(params).name>> \o param_names(Tail(params))

RECURSIVE payload_args_last_first(_)
\* a variant of payload_args that lists the arguments from the last
\* parameter to the first
payload_args_last_first(params) ==
    IF params = <<>> THEN HOk(<<>>)
    ELSE LET h == get_ts_handler_for_script_function_param(Head(params).name, Head(params).ty)
             hs == payload_args_last_first(Tail(params))
         IN  IF h.res # "Ok" THEN h
             ELSE IF hs.res # "Ok" THEN hs
             ELSE HOk(hs.out \o <<[name |-> rename(Head(params).name), h |-> h.out]>>)

RECURSIVE payload_args(_)
\* the encoded arguments of the payload builder, one per parameter
payload_args(params) ==
    IF params = <<>> THEN HOk(<<>>)
    ELSE LET h == get_ts_handler_for_script_function_param(Head(params).name, Head(params).ty)
             hs == payload_args(Tail(params))
         IN  IF h.res # "Ok" THEN h
             ELSE IF hs.res # "Ok" THEN hs
             ELSE HOk(<<[name |-> rename(Head(params).name), h |-> h.out]>> \o hs.out)

\* ast_tests::check_test: a function carrying the test attribute is recorded
has_attribute(attrs, name) == \E i \in 1..Len(attrs) : attrs[i].name = name

check_test(name, func, st) ==
    IF has_attribute(func.attributes, "test")
    THEN emit([st EXCEPT !.c.tests = Append(@, [fname |-> name, sig |-> signature(func)])],
              [k |-> "test_marker"])
    ELSE st

add_cmd(c, mi, fname, f, desc) ==
    [c EXCEPT !.cmds = Append(@, [mi |-> mi, fname |-> fname, func |-> f, desc |-> desc])]

\* byte strings are written as strings; this one stands for bytes that are
\* not UTF-8
InvalidUtf8 == "\\xff"
\* String::from_utf8(bytes).unwrap_or(String::from(""))
from_utf8_or_empty(bytes) == IF bytes = InvalidUtf8 THEN "" ELSE bytes

extract_attribute_value_string(attr) ==
    IF attr.value.k = "Assigned" /\ attr.value.v.k = "Bytearray"
    THEN Some(from_utf8_or_empty(attr.value.v.s))
    ELSE None

RECURSIVE cmd_desc(_, _)
\* the loop over the parameters of a cmd directive: [res, desc]
cmd_desc(params, desc) ==
    IF params = <<>> THEN [res |-> "Ok", desc |-> desc, msg |-> ""]
    ELSE IF Head(params).name = "desc"
    THEN IF extract_attribute_value_string(Head(params)) # None
         THEN cmd_desc(Tail(params), extract_attribute_value_string(Head(params)))
         ELSE [res |-> "Err", desc |-> None,
               msg |-> "desc needs to be assigned a byte string value"]
    ELSE [res |-> "Err", desc |-> None, msg |-> "Unrecognized parameter to cmd directive"]

\* a cmd directive that any function may carry
handle_function_cmd_directive_any_function(fname, f, inner_attrs, st) ==
    LET d == IF inner_attrs # None THEN cmd_desc(unwrap(inner_attrs), None)
             ELSE [res |-> "Ok", desc |-> None, msg |-> ""]
    IN  IF d.res # "Ok" THEN derr(st, d.msg)
        ELSE with_c(st, add_cmd(st.c, unwrap(st.c.current_module), fname, f, d.desc))

handle_function_cmd_directive(fname, f, inner_attrs, st) ==
    IF ~f.entry
    THEN derr(st, "the cmd attribute only works on public entry functions")
    ELSE LET d == IF inner_attrs # None THEN cmd_desc(unwrap(inner_attrs), None)
                  ELSE [res |-> "Ok", desc |-> None, msg |-> ""]
         IN  IF d.res # "Ok" THEN derr(st, d.msg)
             ELSE with_c(st, add_cmd(st.c, unwrap(st.c.current_module), fname, f, d.desc))

write_query_function(fname, f, return_type, st) ==
    LET param_list == param_names(params_no_signers(f.parameters))
                        \o (IF f.type_parameters # <<>> THEN <<<<"$","p">>>> ELSE <<>>)
        params(s) == write_parameters(signature(f), s, TRUE, FALSE)
        body(s) ==
            IF return_type.k # "ModuleType"
            THEN derr(s, "Expect move_to to contain a struct type")
            ELSE emit_term(s, base_type_to_typetag(return_type, s.c),
                           LAMBDA tag : [k |-> "query_body",
                                         payload |-> [fn |-> fname, args |-> param_list],
                                         outputTypeTag |-> tag,
                                         decode |-> return_type.s])
    IN  and_then(and_then(emit(st, [k |-> "query_open", name |-> fname]), params), body)

QueryShapeMsg ==
    "the query attribute can only be used on entry functions with a move_to<X>(signer, x); as the final statement"

\* a variant of handle_function_query_directive that records the query
\* before it looks at the function
query_directive_recording_first(fname, f, st) ==
    LET checked(s) ==
            IF ~f.entry
            THEN derr(s, "the query attribute only works on public entry functions")
            ELSE IF f.native
            THEN derr(s, "the query attribute can only be used on user-defined entry functions")
            ELSE IF f.body = <<>> THEN derr(s, QueryShapeMsg)
            ELSE IF /\ f.body[Len(f.body)].k = "Command"
                    /\ f.body[Len(f.body)].cmd.k = "Return"
                    /\ f.body[Len(f.body)].cmd.exp.k = "MoveTo"
                 THEN write_query_function(fname, f, f.body[Len(f.body)].cmd.exp.ty, s)
                 ELSE derr(s, QueryShapeMsg)
    IN  checked(with_c(st, add_query(st.c, unwrap(st.c.current_module), fname, f)))

handle_function_query_directive(fname, f, st) ==
    IF ~f.entry
    THEN derr(st, "the query attribute only works on public entry functions")
    ELSE IF f.native
    THEN derr(st, "the query attribute can only be used on user-defined entry functions")
    ELSE IF f.body = <<>> THEN derr(st, QueryShapeMsg)
    ELSE LET last_stmt == f.body[Len(f.body)]
             record(s) == with_c(s, add_query(s.c, unwrap(s.c.current_module), fname, f))
         IN  IF /\ last_stmt.k = "Command"
                /\ last_stmt.cmd.k = "Return"
                /\ last_stmt.cmd.exp.k = "MoveTo"
             THEN and_then(write_query_function(fname, f, last_stmt.cmd.exp.ty, st), record)
             ELSE derr(st, QueryShapeMsg)

RECURSIVE handle_function_directives_from(_, _, _, _)
\* the loop of handle_function_directives from attribute idx on
handle_function_directives_from(fname, f, idx, st) ==
    IF idx > Len(f.attributes) \/ ~st.ok THEN st
    ELSE LET attr == f.attributes[idx]
         IN  handle_function_directives_from(fname, f, idx + 1,
               CASE attr.name = "cmd" ->
                      CASE attr.value.k = "Parameterized" ->
                             handle_function_cmd_directive(fname, f, Some(attr.value.inner), st)
                        [] attr.value.k = "Name" ->
                             handle_function_cmd_directive(fname, f, None, st)
                        [] OTHER -> derr(st, "the 'cmd' attribute cannot be assigned")
                 [] attr.name = "query" ->
                      IF attr.value.k = "Name"
                      THEN handle_function_query_directive(fname, f, st)
                      ELSE derr(st, "the 'query' attribute has no parameters")
                 [] attr.name = "method" ->
                      derr(st, "the 'method' attribute can only be used on structs")
                 [] OTHER -> st)

handle_function_directives(fname, f, st) ==
    handle_function_directives_from(fname, f, 1, st)

CacheArg == <<"$","c">>
TagsArg == <<"$","p">>

\* a variant of native_body that forwards the type tags before the cache
native_body_tags_first(name, func, st) ==
    emit(st, [k |-> "native_call",
              target |-> <<format_address(unwrap(st.c.current_module).address),
                           unwrap(st.c.current_module).module, name>>,
              args |-> map_rename(param_names(func.parameters))
                         \o (IF Len(func.type_parameters) = 0 THEN <<>> ELSE <<TagsArg>>)
                         \o <<CacheArg>>])

\* the native arm of the function emitter: one delegating call
native_body(name, func, st) ==
    LET mident == unwrap(st.c.current_module)
    IN  emit(st, [k |-> "native_call",
                  target |-> <<format_address(mident.address), mident.module, name>>,
                  args |-> map_rename(param_names(func.parameters)) \o <<CacheArg>>
                             \o (IF Len(func.type_parameters) = 0 THEN <<>>
                                 ELSE <<TagsArg>>)])

\* the payload-builder part of the function emitter
build_payload(name, func, st) ==
    LET tags(s) ==
            IF Len(func.type_parameters) > 0 THEN emit(s, [k |-> "payload_tags"]) ELSE s
        head(s) == and_then(write_parameters(signature(func), s, TRUE, FALSE), tags)
        body(args, s) ==
            IF args.res = "Panic"
            THEN [s EXCEPT !.ok = FALSE, !.panic = TRUE, !.msg = "panic"]
            ELSE IF args.res = "Err"
            THEN derr(s, "This type is not supported as parameter of script function")
            ELSE emit(s, [k |-> "payload_body",
                          fn |-> <<format_address_hex(unwrap(s.c.current_module).address),
                                   unwrap(s.c.current_module).module, name>>,
                          typeParamStrings |->
                              IF Len(func.type_parameters) > 0 THEN Some(TagsArg) ELSE None,
                          args |-> args.out])
        tail(s) == body(payload_args(params_no_signers(func.parameters)), s)
    IN  and_then(and_then(emit(st, [k |-> "payload_open", name |-> name]), head), tail)

\* "if is_entry && script_function_has_valid_parameter(..)?": the payload
\* builder is written for a supported signature only
payload_if(valid, name, func, st) ==
    IF valid = "Panic" THEN [st EXCEPT !.ok = FALSE, !.panic = TRUE, !.msg = "panic"]
    ELSE IF valid = "Ok" THEN build_payload(name, func, st)
    ELSE st

FunctionDef_write_ts(name, func, st) ==
    LET open(s) ==
            emit(IF s.c.config.test THEN check_test(name, func, s) ELSE s,
                 [k |-> "function_open", name |-> rename(name)])
        params(s) == write_parameters(signature(func), s, FALSE, FALSE)
        tags(s) ==
            IF Len(func.type_parameters) > 0
            THEN emit(emit(s, [k |-> "param_cache"]), [k |-> "param_tags"])
            ELSE emit(s, [k |-> "param_cache"])
        returns(s) == emit_term(s, type_to_tstype(func.return_type, s.c),
                                LAMBDA ty : [k |-> "returns", ty |-> ty])
        body(s) ==
            IF func.native THEN native_body(name, func, s)
            ELSE write_func_body(func.body,
                     filter_not_in(func.locals,
                                   {func.parameters[i].name : i \in 1..Len(func.parameters)}),
                     s)
        enter(s) == [s EXCEPT !.c.current_function_signature = Some(signature(func))]
        payload(s) ==
            IF ~func.entry THEN s
            ELSE payload_if(script_function_has_valid_parameter(signature(func)),
                            name, func, s)
        directives(s) == handle_function_directives(name, func, s)
        leave(s) == [s EXCEPT !.c.current_function_signature = None]
    IN  and_then(and_then(and_then(and_then(and_then(and_then(and_then(and_then(
            open(st), params), tags), returns), enter), body), payload), directives), leave)

\* -------------------------------------------------------------- constants
\* Constant: [name, signature, value]: the declared base type and the block
\* that computes the value
Constant(name, ty, value) ==
    [name |-> name, signature |-> ty, value |-> value]

ArraySuffix == <<"[","]">>

RECURSIVE ts_constant_type(_, _)
\* only builtin types are expected as types of constants: any other type
\* runs into unreachable!()
ts_constant_type(ty, c) ==
    IF ty.k = "Builtin"
    THEN IF ty.b = "Vector"
         THEN t_then(ts_constant_type(ty.args[1], c),
                     LAMBDA r : TOk(r.c, r.out \o ArraySuffix))
         ELSE TOk(c, <<ty.b>>)
    ELSE TPanic(c)

\* a block that only returns an expression is written as the expression,
\* any other block as a lambda that is called at once
write_simplify_constant_block(block, st) ==
    IF Len(block) = 1 /\ block[1].k = "Command" /\ block[1].cmd.k = "Return"
    THEN exp_then(st, Exp_term(block[1].cmd.exp, st.c),
                  LAMBDA e : [k |-> "const_value", term |-> e])
    ELSE nest(st, Block_stmts(block, st),
              LAMBDA ws : [k |-> "const_value", lambda |-> ws])

ConstantDef_write_ts(name, cdef, st) ==
    after_term(st, ts_constant_type(cdef.signature, st.c),
               LAMBDA s, typename :
                  write_simplify_constant_block(cdef.value,
                      emit(s, [k |-> "const", name |-> rename(name), ty |-> typename])))

RECURSIVE Constants_write_ts_past_failures(_, _)
\* a loop over the constants that goes on after a failure
Constants_write_ts_past_failures(constants, st) ==
    IF constants = <<>> THEN st
    ELSE Constants_write_ts_past_failures(Tail(constants),
            ConstantDef_write_ts(Head(constants).name, Head(constants), st))

RECURSIVE Constants_write_ts(_, _)
\* the loop over the constants of the module: "(cname, cdef).write_ts(w, c)?"
Constants_write_ts(constants, st) ==
    IF constants = <<>> \/ ~st.ok THEN st
    ELSE Constants_write_ts(Tail(constants),
                            ConstantDef_write_ts(Head(constants).name, Head(constants), st))

\* ---------------------------------------------------------------- structs
\* Struct: [name, type_parameters, abilities, native, fields, attributes];
\* a type parameter is [name, is_phantom], a field is [name, ty].
\* Program: [modules |-> sequence of [mident, structs, functions]], in key order.
modules_get(program, mi) ==
    IF \E i \in 1..Len(program.modules) : is_same_module(program.modules[i].mident, mi)
    THEN Some(program.modules[CHOOSE i \in 1..Len(program.modules) :
                                  is_same_module(program.modules[i].mident, mi)])
    ELSE None

functions_get(mdef, fname) ==
    IF \E i \in 1..Len(mdef.functions) : mdef.functions[i].name = fname
    THEN Some(mdef.functions[CHOOSE i \in 1..Len(mdef.functions) :
                                 mdef.functions[i].name = fname])
    ELSE None

add_printer_method(c, mi, sname, sdef, fname, sig) ==
    [c EXCEPT !.printer_methods =
        Append(@, [mi |-> mi, sname |-> sname, sdef |-> sdef, fname |-> fname, sig |-> sig])]

add_show_iter_table(c, mi, sname, sdef, field_name) ==
    [c EXCEPT !.all_shows_iter_tables =
        Append(@, [mi |-> mi, sname |-> sname, sdef |-> sdef, field_name |-> field_name])]

\* "Ok", or the primary message of the diagnostic, or "panic"
validate_method(sname, sdef, name, f, c) ==
    LET err == "This function should have the struct as its first parameter"
        sig == signature(f)
        tps == sdef.type_parameters
    IN  IF Len(sig.type_parameters) # Len(tps)
        THEN "This function should have the same type parameters as the struct"
        ELSE IF \E idx \in 1..Len(tps) : tps[idx].name # sig.type_parameters[idx]
        THEN "Mismatched type parameters"
        ELSE IF Len(sig.parameters) < 1 THEN err
        ELSE LET base == sig.parameters[1].ty.base
             IN  IF base.k = "ModuleType"
                 THEN IF is_same_module(unwrap(c.current_module), base.m) /\ sname = base.s
                      THEN LET bad(idx) == \/ base.args[idx].k # "Param"
                                           \/ idx > Len(tps)
                                           \/ tps[idx].name # base.args[idx].name
                               first == CHOOSE idx \in 1..Len(base.args) :
                                           bad(idx) /\ \A j \in 1..(idx - 1) : ~bad(j)
                           IN  IF \E idx \in 1..Len(base.args) : bad(idx)
                               THEN IF base.args[first].k = "Param" /\ first > Len(tps)
                                    THEN "panic"
                                    ELSE "Mismatched type parameters"
                               ELSE "Ok"
                      ELSE err
                 ELSE err

ThisArg == <<"t","h","i","s">>
CacheVar == <<"c","a","c","h","e">>
TagsVar == <<"t","a","g","s">>

\* a record for every method, whatever it returns
add_printer_method_if_any(return_type) == TRUE

\* func.signature.return_type.value != Type_::Unit
has_printer(return_type) == return_type # UnitType

\* a forwarding call that passes the tags before the cache
method_args_tags_first(func) ==
    <<ThisArg>> \o Tail(param_names(func.parameters))
       \o (IF func.type_parameters = <<>> THEN <<>> ELSE <<TagsVar>>)
       \o <<CacheVar>>

\* the arguments of "return f(this, {args}{, }cache{, tags});"
method_args(func) ==
    <<ThisArg>> \o Tail(param_names(func.parameters))
       \o <<CacheVar>>
       \o (IF func.type_parameters = <<>> THEN <<>> ELSE <<TagsVar>>)

RECURSIVE handle_struct_method_directive_from(_, _, _, _, _)
\* the loop of handle_struct_method_directive from entry idx on
handle_struct_method_directive_from(sname, sdef, inner_attrs, idx, st) ==
    IF idx > Len(inner_attrs) \/ ~st.ok THEN st
    ELSE LET pattr == inner_attrs[idx]
             fname == pattr.value.n
             func_opt ==
                 functions_get(unwrap(modules_get(st.c.program, unwrap(st.c.current_module))),
                               fname)
             func == unwrap(func_opt)
             params(s) == write_parameters(signature(func), s, FALSE, TRUE)
             body(s) ==
                 emit(s, [k |-> "method_body",
                          callee |-> fname,
                          args |-> method_args(func)])
             printer(s) ==
                 IF has_printer(func.return_type)
                 THEN with_c(s, add_printer_method(s.c, unwrap(s.c.current_module),
                                                   sname, sdef, fname, signature(func)))
                 ELSE s
             method(v) ==
                 IF v = "panic"
                 THEN [st EXCEPT !.ok = FALSE, !.panic = TRUE, !.msg = "panic"]
                 ELSE IF v # "Ok" THEN derr(st, v)
                 ELSE and_then(and_then(and_then(
                          emit(st, [k |-> "method_open", name |-> fname]),
                          params), body), printer)
         IN  handle_struct_method_directive_from(sname, sdef, inner_attrs, idx + 1,
               IF pattr.value.k = "Name"
               THEN IF func_opt = None
                    THEN derr(st, "This function does not exist in current module")
                    ELSE method(validate_method(sname, sdef, fname, func, st.c))
               ELSE derr(st, "show directive expects only a list of function names as argument"))

handle_struct_method_directive(sname, sdef, inner_attrs, st) ==
    handle_struct_method_directive_from(sname, sdef, inner_attrs, 1, st)

IterableTableModule == <<"i","t","e","r","a","b","l","e","_","t","a","b","l","e">>
IterableTableName == <<"I","t","e","r","a","b","l","e","T","a","b","l","e">>

field_get(fields, field_name) ==
    IF \E i \in 1..Len(fields) : fields[i].name = field_name
    THEN Some(fields[CHOOSE i \in 1..Len(fields) :
                         fields[i].name = field_name
                         /\ \A j \in 1..(i - 1) : fields[j].name # field_name])
    ELSE None

RECURSIVE handle_struct_show_iter_table_directive_from(_, _, _, _, _)
handle_struct_show_iter_table_directive_from(sname, sdef, inner_attrs, idx, st) ==
    IF idx > Len(inner_attrs) \/ ~st.ok THEN st
    ELSE LET pattr == inner_attrs[idx]
             field_name == pattr.value.n
             field_opt == field_get(sdef.fields, field_name)
             table_base == unwrap(field_opt).ty
             entries(s) ==
                 after_term(s, base_type_to_tstype(table_base.args[1], s.c),
                    LAMBDA s1, key :
                       emit_term(s1, base_type_to_tstype(table_base.args[2], s1.c),
                                 LAMBDA value : [k |-> "getIterTableEntries",
                                                 field |-> field_name,
                                                 key |-> key,
                                                 value |-> value]))
             show(s) ==
                 IF sdef.native
                 THEN derr(s, "cannot show iterable tables from native struct")
                 ELSE IF field_opt = None THEN derr(s, "Field does not exist")
                 ELSE IF ~(/\ table_base.k = "ModuleType"
                           /\ format_address_hex(table_base.m.address) = to_hex_literal(1)
                           /\ table_base.m.module = IterableTableModule
                           /\ table_base.s = IterableTableName)
                 THEN derr(s, "Field is not an IterableTable")
                 ELSE IF Len(table_base.args) # 2
                 THEN derr(s, "IterableTable should have 2 type arguments")
                 ELSE entries(s)
         IN  handle_struct_show_iter_table_directive_from(sname, sdef, inner_attrs, idx + 1,
               IF pattr.value.k = "Name"
               THEN show(with_c(st, add_show_iter_table(st.c, unwrap(st.c.current_module),
                                                        sname, sdef, field_name)))
               ELSE derr(st, "show_iter_table directive expects only a field name as argument"))

handle_struct_show_iter_table_directive(sname, sdef, inner_attrs, st) ==
    handle_struct_show_iter_table_directive_from(sname, sdef, inner_attrs, 1, st)

RECURSIVE handle_struct_directives_from(_, _, _, _)
handle_struct_directives_from(sname, sdef, idx, st) ==
    IF idx > Len(sdef.attributes) \/ ~st.ok THEN st
    ELSE LET attr == sdef.attributes[idx]
         IN  handle_struct_directives_from(sname, sdef, idx + 1,
               CASE attr.name = "cmd" ->
                      derr(st, "the 'cmd' attribute cannot be used on structs")
                 [] attr.name = "method" ->
                      IF attr.value.k = "Parameterized"
                      THEN handle_struct_method_directive(sname, sdef, attr.value.inner, st)
                      ELSE derr(st, "the 'method' attribute requires a list of function names as argument")
                 [] attr.name = "show_iter_table" ->
                      IF attr.value.k = "Parameterized"
                      THEN handle_struct_show_iter_table_directive(sname, sdef, attr.value.inner, st)
                      ELSE derr(st, "the 'show' requires a list of function names as argument")
                 [] OTHER -> st)

handle_struct_directives(sname, sdef, st) == handle_struct_directives_from(sname, sdef, 1, st)

RECURSIVE struct_fields_from(_, _, _, _)
\* the three loops over the fields: descriptors, storage, constructor
struct_fields_from(sdef, fields, what, st) ==
    IF fields = <<>> \/ ~st.ok THEN st
    ELSE LET field == Head(fields)
         IN  struct_fields_from(sdef, Tail(fields), what,
               emit_term(st,
                         IF what = "field_decl"
                         THEN base_type_to_typetag_builder(field.ty,
                                  [i \in 1..Len(sdef.type_parameters) |->
                                      sdef.type_parameters[i].name],
                                  st.c)
                         ELSE base_type_to_tstype(field.ty, st.c),
                         LAMBDA ty : [k |-> what, name |-> rename(field.name), ty |-> ty]))

StdName == <<"s","t","d">>
StringModule == <<"s","t","r","i","n","g">>
StringName == <<"S","t","r","i","n","g">>

\* the closed table of hand-written augmentations (abridged to its first row)
handle_special_structs(name, st) ==
    IF st.c.current_module = None THEN st
    ELSE LET mident == unwrap(st.c.current_module)
         IN  IF /\ format_address(mident.address) = StdName
                /\ mident.module = StringModule
                /\ name = StringName
             THEN emit(st, [k |-> "special", what |-> "str"])
             ELSE st

\* a variant of the struct emitter that gives every struct with fields a loader
StructDef_write_ts_always_loading(name, sdef, st) ==
    LET decls(s) == struct_fields_from(sdef, sdef.fields, "field_decl",
                                       emit(s, [k |-> "fields"]))
        fields(s) == struct_fields_from(sdef, sdef.fields, "field", s)
        ctor(s) == struct_fields_from(sdef, sdef.fields, "ctor_field",
                                      emit(s, [k |-> "constructor"]))
        parser(s) ==
            emit(emit(s, [k |-> "parser", name |-> name]), [k |-> "load", name |-> name])
        special(s) == handle_special_structs(name, s)
        directives(s) == handle_struct_directives(name, sdef, s)
        defined(s) ==
            and_then(and_then(and_then(and_then(and_then(
                decls(s), fields), ctor), parser), special), directives)
        open(s) == emit(emit(s, [k |-> "class", name |-> rename(name)]),
                        [k |-> "typeParameters", params |-> sdef.type_parameters])
    IN  IF sdef.native THEN open(st) ELSE defined(open(st))

StructDef_write_ts(name, sdef, st) ==
    LET decls(s) == struct_fields_from(sdef, sdef.fields, "field_decl",
                                       emit(s, [k |-> "fields"]))
        fields(s) == struct_fields_from(sdef, sdef.fields, "field", s)
        ctor(s) == struct_fields_from(sdef, sdef.fields, "ctor_field",
                                      emit(s, [k |-> "constructor"]))
        parser(s) ==
            IF "key" \in sdef.abilities
            THEN emit(emit(s, [k |-> "parser", name |-> name]), [k |-> "load", name |-> name])
            ELSE emit(s, [k |-> "parser", name |-> name])
        special(s) == handle_special_structs(name, s)
        directives(s) == handle_struct_directives(name, sdef, s)
        defined(s) ==
            and_then(and_then(and_then(and_then(and_then(
                decls(s), fields), ctor), parser), special), directives)
        open(s) == emit(emit(s, [k |-> "class", name |-> rename(name)]),
                        [k |-> "typeParameters", params |-> sdef.type_parameters])
    IN  IF sdef.native THEN open(st) ELSE defined(open(st))

\* ----------------------------------------------------------------- module
\* a variant of write_load_parsers that registers only the structs that have
\* a parser of their own
write_load_parsers_defined_only(mident, module, st) ==
    emit(st, [k |-> "loadParsers",
              entries |-> [i \in 1..Len(SelectSeq(module.structs, LAMBDA sd : ~sd.native)) |->
                             [key |-> <<format_address_hex(mident.address), mident.module,
                                        SelectSeq(module.structs, LAMBDA sd : ~sd.native)[i].name>>,
                              parser |-> SelectSeq(module.structs,
                                                   LAMBDA sd : ~sd.native)[i].name]]])

write_load_parsers(mident, module, st) ==
    emit(st, [k |-> "loadParsers",
              entries |-> [i \in 1..Len(module.structs) |->
                             [key |-> <<format_address_hex(mident.address), mident.module,
                                        module.structs[i].name>>,
                              parser |-> module.structs[i].name]]])

TableModule == <<"t","a","b","l","e">>

handle_special_module(mi, st) ==
    IF format_address_hex(mi.address) = to_hex_literal(1)
       /\ mi.module \in {TableModule, IterableTableModule}
    THEN emit(st, [k |-> "table_helper", module |-> mi.module])
    ELSE st

\* the import lines to_ts_string puts before the body: one per name, in the
\* set's iteration order
import_lines(names) ==
    LET order == BTreeSet_iter(names)
    IN  [i \in 1..Len(order) |-> [as |-> capitalize(order[i]), from |-> order[i]]]

\* Ok((filename, content)) of translate_module
Ok(mident, c, body) ==
    [ok |-> TRUE,
     filename |-> <<format_address(mident.address), mident.module>>,
     package_imports |-> import_lines(c.package_imports),
     same_package_imports |-> import_lines(c.same_package_imports),
     body |-> body,
     diags |-> <<>>]

\* Err(diags) of translate_module: one diagnostic, no file
Err(msg) ==
    [ok |-> FALSE, filename |-> <<>>, package_imports |-> <<>>,
     same_package_imports |-> <<>>, body |-> <<>>, diags |-> <<msg>>]

\* ------------------------------------------------------------------ state
VARIABLES
    c,        \* the Context of the run (with the program and the options)
    w,        \* the writer of the module being translated
    pc,       \* "idle" | "reset" | "structs" | "functions" | "finish" | "panicked"
    idx,      \* the declaration the traversal is at
    cur,      \* the index of the module being translated
    calls,    \* translate_module calls so far
    result,   \* what the last translate_module call returned
    results,  \* the <<module, result>> of every call of this run, in order
    stmt,     \* a loop statement and
    code,     \*   the loop emitted for it,
    ip,       \*   the position of its execution and
    trace     \*   what the execution did so far

vars == <<c, w, pc, idx, cur, calls, result, results, stmt, code, ip, trace>>
runVars == <<c, w, pc, idx, cur, calls, result, results>>
loopVars == <<stmt, code, ip, trace>>

state == [c |-> c, w |-> w, ok |-> TRUE, msg |-> "", panic |-> FALSE]

mdef == c.program.modules[cur]

position_from_structs(module, i) ==
    IF i <= Len(module.structs) THEN <<"structs", i>>
    ELSE IF Len(module.functions) > 0 THEN <<"functions", 1>>
    ELSE <<"finish", 1>>

position_from_functions(module, i) ==
    IF i <= Len(module.functions) THEN <<"functions", i>> ELSE <<"finish", 1>>

\* translate_module, first step: reset_for_module
BeginTranslate(i) ==
    /\ pc = "idle"
    /\ calls < MaxTranslations
    /\ c' = reset_for_module(c, c.program.modules[i].mident)
    /\ cur' = i
    /\ w' = <<>>
    /\ pc' = "reset"
    /\ idx' = 1
    /\ calls' = calls + 1
    /\ result' = None
    /\ UNCHANGED <<results, loopVars>>

\* to_ts_string: the module's write_ts, from the module meta bindings on
\* what a declaration's write_ts leaves: the traversal goes on at next, or
\* translate_module returns Err, or the run is aborted by a panic
Declared(st, next) ==
    /\ c' = st.c
    /\ w' = st.w
    /\ IF st.ok
       THEN /\ pc' = next[1]
            /\ idx' = next[2]
            /\ UNCHANGED <<result, results>>
       ELSE IF st.panic
       THEN /\ pc' = "panicked"
            /\ UNCHANGED <<idx, result, results>>
       ELSE /\ pc' = "idle"
            /\ idx' = 1
            /\ result' = Some(Err(st.msg))
            /\ results' = Append(results, <<cur, Err(st.msg)>>)
    /\ UNCHANGED <<cur, calls, loopVars>>

\* the module meta bindings, then the constants of the module
WriteModuleMeta ==
    /\ pc = "reset"
    /\ Declared(Constants_write_ts(mdef.constants,
                    emit(state, [k |-> "meta",
                                 moduleAddress |-> format_address_hex(mdef.mident.address),
                                 moduleName |-> mdef.mident.module])),
                position_from_structs(mdef, 1))

WriteStruct ==
    /\ pc = "structs"
    /\ Declared(StructDef_write_ts(mdef.structs[idx].name, mdef.structs[idx], state),
                position_from_structs(mdef, idx + 1))

WriteFunction ==
    /\ pc = "functions"
    /\ Declared(FunctionDef_write_ts(mdef.functions[idx].name, mdef.functions[idx], state),
                position_from_functions(mdef, idx + 1))

\* the rest of the module's write_ts, the import lines, and Ok((filename, content))
Finish ==
    /\ pc = "finish"
    /\ LET st == handle_special_module(mdef.mident,
                     write_load_parsers(mdef.mident, mdef, state))
           res == Ok(mdef.mident, st.c, st.w)
       IN  /\ c' = st.c
           /\ w' = st.w
           /\ result' = Some(res)
           /\ results' = Append(results, <<cur, res>>)
    /\ pc' = "idle"
    /\ idx' = 1
    /\ UNCHANGED <<cur, calls, loopVars>>

Translate ==
    \/ \E i \in 1..Len(c.program.modules) : BeginTranslate(i)
    \/ WriteModuleMeta
    \/ WriteStruct
    \/ WriteFunction
    \/ Finish

\* ---------------------------------------------------------- the programs
\* Addresses and modules of the programs the model translates.  AnonAddr is
\* StdAddr written without its name: equal as an Address, another package by
\* is_same_package.  UnassignedStd prints as "std" and is a third package.
StdAddr == Numerical(Some(StdName), 1)
AnonAddr == Numerical(None, 1)
ApAddr == Numerical(Some(<<"a","p">>), 2)
UnassignedStd == NamedUnassigned(StdName)

M_a == ModuleIdent(StdAddr, <<"a">>)
M_b == ModuleIdent(StdAddr, <<"b">>)
M_c == ModuleIdent(ApAddr, <<"c">>)

\* the modules a body may refer to: the program's, and other spellings
Targets == {M_a, M_b, M_c,
            ModuleIdent(AnonAddr, <<"a">>), ModuleIdent(UnassignedStd, <<"a">>)}

N_f == <<"f">>
N_g == <<"g">>
N_h == <<"h">>
N_new == <<"n","e","w">>
N_S == <<"S">>
N_T == <<"T">>

Command(cmd) == [k |-> "Command", cmd |-> cmd]
IgnoreAndPop(exp) == [k |-> "IgnoreAndPop", exp |-> exp]
Return(exp) == [k |-> "Return", exp |-> exp]
Assign(lvalues, rhs) == [k |-> "Assign", lvalues |-> lvalues, rhs |-> rhs]
Unit == [k |-> "Unit"]
Value(id) == [k |-> "Value", id |-> id]
ModuleCall(m, f) == [k |-> "ModuleCall", m |-> m, f |-> f]
MoveTo(ty) == [k |-> "MoveTo", ty |-> ty]
Jump == [k |-> "Jump"]
Attr(name, value) == [name |-> name, value |-> value]
NameAttr(n) == [k |-> "Name", n |-> n]

Function(name, body, attributes) ==
    [name |-> name, type_parameters |-> <<>>, parameters |-> <<>>,
     return_type |-> UnitType, entry |-> FALSE, native |-> FALSE,
     locals |-> <<>>, body |-> body, attributes |-> attributes]

Struct(name, fields, attributes) ==
    [name |-> name, type_parameters |-> <<>>, abilities |-> {"key"},
     native |-> FALSE, fields |-> fields, attributes |-> attributes]

Module(mident, structs, functions) ==
    [mident |-> mident, constants |-> <<>>, structs |-> structs, functions |-> functions]

Idle(program, test) ==
    /\ c = Context_new([test |-> test], program)
    /\ w = <<>>
    /\ pc = "idle"
    /\ idx = 1
    /\ cur = 1
    /\ calls = 0
    /\ result = None
    /\ results = <<>>

LoopOff ==
    /\ stmt = None
    /\ code = None
    /\ ip = <<>>
    /\ trace = <<>>

\* ---- the run: three modules of two packages, translated in any order
\* a reference: a call of function f or new of a target module
Refs == {ModuleCall(m, N_f) : m \in Targets} \cup {ModuleCall(M_b, N_new)}

RefSeqs(n) == UNION {[1..k -> Refs] : k \in 0..n}

Calls(refs) == [i \in 1..Len(refs) |-> Command(IgnoreAndPop(refs[i]))]

TestAttrs == <<Attr("test", NameAttr(<<>>))>>

RunProgram(refs_a, fails) ==
    [modules |->
       << Module(M_a, <<>>, <<Function(N_f, Calls(refs_a), <<>>)>>),
          Module(M_b,
                 <<Struct(N_S, <<[name |-> <<"x">>, ty |-> ModuleType(M_c, N_T, <<>>)]>>, <<>>)>>,
                 <<Function(N_g, Calls(<<ModuleCall(M_a, N_f)>>), TestAttrs)>>),
          Module(M_c, <<>>,
                 <<Function(N_h,
                            Calls(<<ModuleCall(M_a, N_f)>>)
                              \o (IF fails THEN <<Command(Jump)>> ELSE <<>>),
                            <<>>)>>) >>]

Init ==
    /\ \E refs_a \in RefSeqs(MaxRefs), fails \in BOOLEAN, test \in BOOLEAN :
          Idle(RunProgram(refs_a, fails), test)
    /\ LoopOff

Next == Translate

Spec == Init /\ [][Next]_vars

\* ---- function bodies: one module, one function, every body of up to
\* MaxStmts statements
N_p == <<"p">>
N_x == <<"x">>
N_y == <<"y">>
N_v == <<"v">>
N_cond == <<"c","o","n","d">>

Var(var) == [k |-> "Var", var |-> var]
Unpack(fields) == [k |-> "Unpack", fields |-> fields]
IfElse(cond, if_block, else_block) ==
    [k |-> "IfElse", cond |-> cond, if_block |-> if_block, else_block |-> else_block]
While(pre_block, cond, block) ==
    [k |-> "While", pre_block |-> pre_block, cond |-> cond, block |-> block]
Loop(block) == [k |-> "Loop", block |-> block]

\* the commands of the bodies: a destructuring assignment, one that
\* destructures in depth next to a plain variable, a discarded unit and a
\* discarded value
Leaves ==
    { Command(Assign(<<Unpack(<<Var(N_x)>>)>>, Value(N_v))),
      Command(Assign(<<Unpack(<<Unpack(<<Var(N_y)>>)>>), Var(N_x)>>, Value(N_v))),
      Command(IgnoreAndPop(Unit)),
      Command(IgnoreAndPop(Value(N_v))) }

RECURSIVE BlocksOfSize(_)
RECURSIVE StmtsOfSize(_)
\* the blocks of exactly n statements, nested ones counted
BlocksOfSize(n) ==
    IF n = 0 THEN {<<>>}
    ELSE UNION { {<<s>> \o b : s \in StmtsOfSize(k), b \in BlocksOfSize(n - k)} : k \in 1..n }

StmtsOfSize(n) ==
    (IF n = 1 THEN Leaves ELSE {})
    \cup UNION { {IfElse(Value(N_cond), b1, b2) :
                    b1 \in BlocksOfSize(i), b2 \in BlocksOfSize(n - 1 - i)} : i \in 0..(n - 1) }
    \cup UNION { {While(b1, Value(N_cond), b2) :
                    b1 \in BlocksOfSize(i), b2 \in BlocksOfSize(n - 1 - i)} : i \in 0..(n - 1) }
    \cup {Loop(b) : b \in BlocksOfSize(n - 1)}

Bodies == UNION {BlocksOfSize(n) : n \in 0..MaxStmts}

U64 == Base(Builtin("U64", <<>>))

BodyProgram(body) ==
    [modules |->
       << Module(M_a,
                 <<Struct(N_S, <<[name |-> N_x, ty |-> Builtin("U64", <<>>)]>>, <<>>)>>,
                 <<[Function(N_f, body, <<>>) EXCEPT
                       !.parameters = <<[name |-> N_p, ty |-> U64]>>,
                       !.locals = <<N_p, N_x, N_y>>]>>) >>]

InitBody ==
    /\ \E body \in Bodies : Idle(BodyProgram(body), FALSE)
    /\ LoopOff

SpecBody == InitBody /\ [][Next]_vars

\* ---- the emitted loop, executed.  The statements of the target language
\* run as the language defines them: a block runs its statements in order,
\* "while (true)" runs its block again and again, break leaves the innermost
\* loop and continue starts its next round.  ip is what is left to run: the
\* statements ahead, with an end-of-round mark after each loop body.
N_p1 == <<"p","1">>
N_p2 == <<"p","2">>
N_b == <<"b">>

Run(name) == Command(IgnoreAndPop(Value(name)))

PreBlocks == {<<Run(N_p1)>>, <<Run(N_p1), Run(N_p2)>>}

LoopBodies ==
    UNION {[1..n -> {Run(N_b), Command([k |-> "Continue"]), Command([k |-> "Break"])}] :
              n \in 0..MaxLoopBody}

EndOfRound(loop) == [k |-> "end_of_round", loop |-> loop]

RECURSIVE to_end_of_round(_)
\* what is left to run from the end of the innermost round on
to_end_of_round(rest) ==
    IF rest = <<>> \/ Head(rest).k = "end_of_round" THEN rest
    ELSE to_end_of_round(Tail(rest))

\* what was run and tested so far: the statements by their text
Ran(e) == [ev |-> "run", e |-> e, v |-> TRUE]
Checked(e, v) == [ev |-> "check", e |-> e, v |-> v]

checks == Cardinality({i \in 1..Len(trace) : trace[i].ev = "check"})

InitLoop ==
    /\ c = reset_for_module(Context_new([test |-> FALSE], BodyProgram(<<>>)), M_a)
    /\ w = <<>>
    /\ pc = "functions"
    /\ idx = 1
    /\ cur = 1
    /\ calls = 1
    /\ result = None
    /\ results = <<>>
    /\ \E pre_block \in PreBlocks, block \in LoopBodies :
          stmt = Some(While(pre_block, Value(N_cond), block))
    /\ code = None
    /\ ip = <<>>
    /\ trace = <<>>

\* the statement's write_ts
EmitLoop ==
    /\ code = None
    /\ LET st == Statement_write_ts(unwrap(stmt), state)
       IN  /\ st.ok
           /\ c' = st.c
           /\ w' = st.w
           /\ code' = Some(st.w[Len(st.w)])
           /\ ip' = <<st.w[Len(st.w)]>>
    /\ UNCHANGED <<pc, idx, cur, calls, result, results, stmt, trace>>

Executing(kind) == code # None /\ ip # <<>> /\ Head(ip).k = kind

Stepped(rest, events) ==
    /\ ip' = rest
    /\ trace' = trace \o events
    /\ UNCHANGED <<runVars, stmt, code>>

\* while (true) { .. }
EnterLoop ==
    /\ Executing("while")
    /\ Head(ip).test = TrueLit
    /\ Stepped(Head(ip).body \o <<EndOfRound(Head(ip))>> \o Tail(ip), <<>>)

NextRound ==
    /\ Executing("end_of_round")
    /\ Stepped(<<Head(ip).loop>> \o Tail(ip), <<>>)

EnterBlock ==
    /\ Executing("block")
    /\ Stepped(Head(ip).stmts \o Tail(ip), <<>>)

RunStatement ==
    /\ Executing("expr")
    /\ Stepped(Tail(ip), <<Ran(Head(ip).e)>>)

\* if (!(cond)) break;  the condition is true or false as the run decides
TestAndBreak ==
    /\ Executing("if_break")
    /\ Head(ip).test.neg
    /\ \E v \in (IF checks + 1 < MaxChecks THEN BOOLEAN ELSE {FALSE}) :
          Stepped(IF v THEN Tail(ip) ELSE Tail(to_end_of_round(ip)),
                  <<Checked(Head(ip).test.e, v)>>)

Break ==
    /\ Executing("break")
    /\ Stepped(Tail(to_end_of_round(ip)), <<>>)

Continue ==
    /\ Executing("continue")
    /\ Stepped(to_end_of_round(ip), <<>>)

NextLoop ==
    \/ EmitLoop
    \/ EnterLoop
    \/ NextRound
    \/ EnterBlock
    \/ RunStatement
    \/ TestAndBreak
    \/ Break
    \/ Continue

SpecLoop == InitLoop /\ [][NextLoop]_vars

\* ---- method directives: one module with a struct S that names a function
\* in its method directive, and a function f
N_U == <<"U">>

TParam(name) == [name |-> name, is_phantom |-> FALSE]

StructTypeParameters == {<<>>, <<TParam(N_T)>>, <<TParam(N_T), TParam(N_U)>>}
FunctionTypeParameters == {<<>>, <<N_T>>, <<N_T, N_U>>, <<N_U, N_T>>}

\* the types a parameter of f may have, for a struct of n type parameters and
\* a function of type parameters tps: u64, and S applied to n arguments, each
\* one of the function's type parameters or u64, by value or by reference
TypeArgs(tps) == {Param(tps[i]) : i \in 1..Len(tps)} \cup {Builtin("U64", <<>>)}

ParamTypes(n, tps) ==
    {U64} \cup {Ref(ModuleType(M_a, N_S, args)) : args \in [1..n -> TypeArgs(tps)]}
          \cup {Base(ModuleType(M_a, N_S, args)) : args \in [1..n -> TypeArgs(tps)]}

ParamNames == <<N_p, N_x, N_y>>

Parameters(n, tps) ==
    UNION { {[i \in 1..k |-> [name |-> ParamNames[i], ty |-> tys[i]]] :
                tys \in [1..k -> ParamTypes(n, tps)]} : k \in 0..MaxParams }

MethodDirective(fname) ==
    Attr("method", [k |-> "Parameterized",
                    inner |-> <<Attr("name", NameAttr(fname))>>])

MethodProgram(stps, native, fname, ftps, params) ==
    [modules |->
       << Module(M_a,
                 <<[Struct(N_S,
                           IF native THEN <<>>
                           ELSE <<[name |-> N_x, ty |-> Builtin("U64", <<>>)]>>,
                           <<MethodDirective(fname)>>) EXCEPT
                       !.type_parameters = stps,
                       !.native = native]>>,
                 <<[Function(N_f, <<>>, <<>>) EXCEPT
                       !.type_parameters = ftps,
                       !.parameters = params]>>) >>]

InitMethod ==
    /\ \E stps \in StructTypeParameters, native \in BOOLEAN, fname \in {N_f, N_g},
           ftps \in FunctionTypeParameters :
          \E params \in Parameters(Len(stps), ftps) :
             Idle(MethodProgram(stps, native, fname, ftps, params), FALSE)
    /\ LoopOff

SpecMethod == InitMethod /\ [][Next]_vars

\* ------------------------------------------------------------ query family
\* a module of one struct S and one function f that carries the query
\* directive; f is generic exactly when S is, and publishes S applied to
\* f's own type parameters
Abort(exp) == [k |-> "Abort", exp |-> exp]

QueryTypeParameters == {<<>>, <<N_T>>}

PublishedStruct(tps) ==
    ModuleType(M_a, N_S, [i \in 1..Len(tps) |-> Param(tps[i])])

\* move_to<ty>(..) as the value the body returns
Publish(ty) == Command(Return(MoveTo(ty)))

\* the types a move_to of f may publish: S, or a type parameter of f
PublishedTypes(tps) ==
    {PublishedStruct(tps)} \cup {Param(tps[i]) : i \in 1..Len(tps)}

\* the final statements of the bodies: a returned move_to, a return of unit
\* or of a value, an abort, and compound statements that publish inside
QueryFinals(tps) ==
    {Publish(ty) : ty \in PublishedTypes(tps)}
    \cup { Command(Return(Unit)),
           Command(Return(Value(N_v))),
           Command(Abort(Value(N_v))),
           IfElse(Value(N_cond), <<Publish(PublishedStruct(tps))>>,
                                 <<Command(Abort(Value(N_v)))>>),
           Loop(<<Publish(PublishedStruct(tps))>>) }

\* what comes before the final statement: nothing, a move_to whose unit
\* value is discarded, or another statement
QueryPrefixes(tps) ==
    { <<>>,
      <<Command(IgnoreAndPop(MoveTo(PublishedStruct(tps))))>>,
      <<Run(N_v)>> }

QueryBodies(tps) ==
    {<<>>} \cup {pre \o <<last>> : pre \in QueryPrefixes(tps), last \in QueryFinals(tps)}

QueryParameters ==
    { <<>>,
      <<[name |-> N_p, ty |-> Ref(Builtin("Signer", <<>>))],
        [name |-> N_x, ty |-> U64]>> }

QueryDirective == Attr("query", NameAttr(<<>>))

QueryProgram(entry, native, tps, params, body) ==
    [modules |->
       << Module(M_a,
                 <<[Struct(N_S, <<[name |-> N_x, ty |-> Builtin("U64", <<>>)]>>, <<>>)
                       EXCEPT !.type_parameters = [i \in 1..Len(tps) |-> TParam(tps[i])]]>>,
                 <<[Function(N_f, body, <<QueryDirective>>) EXCEPT
                       !.entry = entry,
                       !.native = native,
                       !.type_parameters = tps,
                       !.parameters = params]>>) >>]

\* a native function has no body
InitQuery ==
    /\ \E entry \in BOOLEAN, native \in BOOLEAN, tps \in QueryTypeParameters,
          params \in QueryParameters :
          \E body \in (IF native THEN {<<>>} ELSE QueryBodies(tps)) :
             Idle(QueryProgram(entry, native, tps, params, body), FALSE)
    /\ LoopOff

SpecQuery == InitQuery /\ [][Next]_vars

\* ------------------------------------------------------------ entry family
\* a module of one struct S and one function f, entry or not, native or
\* not, generic or not, over parameter lists of signers, atomics, vectors
\* of one to three levels, a vector of signers and a struct
MaxEntryParams == 3

Vector(ty) == Builtin("Vector", <<ty>>)
Signer == Builtin("Signer", <<>>)

EntryParamTypes ==
    { Base(Signer),
      Ref(Signer),
      Base(Builtin("Address", <<>>)),
      U64,
      Base(Vector(Builtin("U8", <<>>))),
      Base(Vector(Vector(Builtin("U64", <<>>)))),
      Base(Vector(Vector(Vector(Builtin("U8", <<>>))))),
      Base(Vector(Signer)),
      Base(ModuleType(M_a, N_S, <<>>)) }

EntryParameters ==
    UNION { {[i \in 1..k |-> [name |-> ParamNames[i], ty |-> tys[i]]] :
                tys \in [1..k -> EntryParamTypes]} : k \in 0..MaxEntryParams }

EntryProgram(entry, native, tps, params) ==
    [modules |->
       << Module(M_a,
                 <<Struct(N_S, <<[name |-> N_x, ty |-> Builtin("U64", <<>>)]>>, <<>>)>>,
                 <<[Function(N_f, <<>>, <<>>) EXCEPT
                       !.entry = entry,
                       !.native = native,
                       !.type_parameters = tps,
                       !.parameters = params]>>) >>]

InitEntry ==
    /\ \E entry \in BOOLEAN, native \in BOOLEAN, tps \in QueryTypeParameters,
          params \in EntryParameters :
          Idle(EntryProgram(entry, native, tps, params), FALSE)
    /\ LoopOff

SpecEntry == InitEntry /\ [][Next]_vars

\* ----------------------------------------------------------- struct family
\* a module of up to two structs S and U, in key order, and one function f;
\* S is native or has up to two fields, with any abilities among key and
\* store, and carries up to two directives
N_z == <<"z">>

IterableTableIdent == ModuleIdent(StdAddr, IterableTableModule)
\* 0x1::iterable_table::IterableTable<u64, u64>, the same with one type
\* argument, and a struct of that name of another module
IterableTable2 ==
    ModuleType(IterableTableIdent, IterableTableName,
               <<Builtin("U64", <<>>), Builtin("U64", <<>>)>>)
IterableTable1 ==
    ModuleType(IterableTableIdent, IterableTableName, <<Builtin("U64", <<>>)>>)
OtherTable ==
    ModuleType(M_b, IterableTableName, <<Builtin("U64", <<>>), Builtin("U64", <<>>)>>)

Field(name, ty) == [name |-> name, ty |-> ty]

FieldLists ==
    { <<>>,
      <<Field(N_x, Builtin("U64", <<>>))>>,
      <<Field(N_x, IterableTable2)>>,
      <<Field(N_x, IterableTable1)>>,
      <<Field(N_x, OtherTable)>>,
      <<Field(N_x, IterableTable2), Field(N_y, IterableTable2)>>,
      <<Field(N_x, IterableTable2), Field(N_y, Builtin("U64", <<>>))>> }

Parameterized(inner) == [k |-> "Parameterized", inner |-> inner]
Assigned(v) == [k |-> "Assigned", v |-> v]
Bytearray(str) == [k |-> "Bytearray", s |-> str]
Number == [k |-> "Number"]

\* show_iter_table(names..): one inner attribute per name, in key order
ShowIterTable(names) ==
    Attr("show_iter_table",
         Parameterized([i \in 1..Len(names) |-> Attr(names[i], NameAttr(names[i]))]))

CmdDirective == Attr("cmd", NameAttr(<<>>))

\* the attributes of S, in key order
StructDirectives ==
    { <<>>,
      <<CmdDirective>>,
      <<CmdDirective, ShowIterTable(<<N_x>>)>>,
      <<ShowIterTable(<<N_x>>)>>,
      <<ShowIterTable(<<N_y>>)>>,
      <<ShowIterTable(<<N_x, N_y>>)>>,
      <<ShowIterTable(<<N_x, N_z>>)>>,
      <<Attr("show_iter_table", NameAttr(<<>>))>>,
      <<Attr("show_iter_table", Parameterized(<<Attr(N_x, Assigned(Number))>>))>> }

AbilitySets == SUBSET {"key", "store"}

StructsS ==
    { [Struct(N_S, IF native THEN <<>> ELSE fields, attributes) EXCEPT
          !.native = native,
          !.abilities = abilities,
          !.type_parameters = tps] :
        native \in BOOLEAN, fields \in FieldLists, attributes \in StructDirectives,
        abilities \in AbilitySets, tps \in {<<>>, <<TParam(N_T)>>} }

StructsU ==
    { Struct(N_U, <<Field(N_x, Builtin("U64", <<>>))>>, <<>>),
      [Struct(N_U, <<>>, <<>>) EXCEPT !.native = TRUE] }

StructLists ==
    {<<>>} \cup {<<sd>> : sd \in StructsS \cup StructsU}
           \cup {<<sd, ud>> : sd \in StructsS, ud \in StructsU}

StructProgram(structs) ==
    [modules |-> << Module(M_a, structs, <<Function(N_f, <<>>, <<>>)>>) >>]

InitStruct ==
    /\ \E structs \in StructLists : Idle(StructProgram(structs), FALSE)
    /\ LoopOff

SpecStruct == InitStruct /\ [][Next]_vars

\* -------------------------------------------------------------- cmd family
\* a module of one struct and one function f(p: &signer, x: u64) with an
\* empty body, entry or not, that carries a cmd attribute in one of its
\* forms, alone or before a query attribute (which the empty body fails)
CmdForms ==
    { NameAttr(<<>>),
      Parameterized(<<>>),
      Parameterized(<<Attr("desc", Assigned(Bytearray("d")))>>),
      Parameterized(<<Attr("desc", Assigned(Bytearray(InvalidUtf8)))>>),
      Parameterized(<<Attr("desc", Assigned(Number))>>),
      Parameterized(<<Attr("desc", NameAttr(<<>>))>>),
      Parameterized(<<Attr("desc", Assigned(Bytearray("d"))), Attr("other", NameAttr(<<>>))>>),
      Parameterized(<<Attr("about", NameAttr(<<>>)), Attr("desc", Assigned(Bytearray("d")))>>),
      Parameterized(<<Attr("other", Assigned(Bytearray("d")))>>),
      Assigned(Bytearray("d")) }

\* the attributes of f, in key order
CmdAttributes ==
    {<<>>} \cup {<<Attr("cmd", form)>> : form \in CmdForms}
           \cup {<<Attr("cmd", form), QueryDirective>> : form \in CmdForms}

CmdProgram(entry, attributes) ==
    [modules |->
       << Module(M_a,
                 <<Struct(N_S, <<Field(N_x, Builtin("U64", <<>>))>>, <<>>)>>,
                 <<[Function(N_f, <<>>, attributes) EXCEPT
                       !.entry = entry,
                       !.parameters = <<[name |-> N_p, ty |-> Ref(Signer)],
                                        [name |-> N_x, ty |-> U64]>>]>>) >>]

InitCmd ==
    /\ \E entry \in BOOLEAN, attributes \in CmdAttributes :
          Idle(CmdProgram(entry, attributes), FALSE)
    /\ LoopOff

SpecCmd == InitCmd /\ [][Next]_vars

\* ---------------------------------------------------------- failure family
\* a module of up to two constants K and L, up to one struct and up to two
\* functions f and g, where any declaration may be one that cannot be
\* translated
N_K == <<"K">>
N_L == <<"L">>

Mutate(lhs, rhs) == [k |-> "Mutate", lhs |-> lhs, rhs |-> rhs]
Dereference == [k |-> "Dereference"]
UnresolvedError == [k |-> "UnresolvedError"]

ReturnValue == Command(Return(Value(N_v)))
\* blocks with a command that is not supported
JumpBlock == <<Command(Jump), ReturnValue>>
DerefBlock == <<Command(Mutate(Dereference, Value(N_v))), ReturnValue>>

\* the types of constants: builtin ones, and the ones that are not expected
ConstantTypes ==
    { Builtin("U64", <<>>),
      Vector(Builtin("U8", <<>>)),
      ModuleType(M_a, N_S, <<>>),
      Param(N_T),
      UnresolvedError,
      Vector(ModuleType(M_a, N_S, <<>>)) }

ConstantsK ==
    {Constant(N_K, ty, <<ReturnValue>>) : ty \in ConstantTypes}
    \cup {Constant(N_K, Builtin("U64", <<>>), block) :
             block \in {<<Run(N_v), ReturnValue>>, JumpBlock, DerefBlock}}

ConstantsL ==
    {Constant(N_L, Builtin("U64", <<>>), block) : block \in {<<ReturnValue>>, JumpBlock}}

ConstantLists ==
    {<<>>} \cup {<<k>> : k \in ConstantsK} \cup {<<k, l>> : k \in ConstantsK, l \in ConstantsL}

FailStructLists ==
    { <<>>,
      <<Struct(N_S, <<Field(N_x, Builtin("U64", <<>>))>>, <<>>)>>,
      <<Struct(N_S, <<Field(N_x, Builtin("U64", <<>>))>>, <<CmdDirective>>)>> }

\* entry functions that carry the cmd directive: each one that is translated
\* leaves a record
Recorded(name, body) == [Function(name, body, <<CmdDirective>>) EXCEPT !.entry = TRUE]

FailFunctionLists ==
    {<<>>}
    \cup {<<Recorded(N_f, body)>> : body \in {<<Run(N_v)>>, JumpBlock, DerefBlock}}
    \cup {<<Recorded(N_f, body), Recorded(N_g, body2)>> :
             body \in {<<Run(N_v)>>, JumpBlock, DerefBlock},
             body2 \in {<<Run(N_v)>>, JumpBlock}}

FailProgram(constants, structs, functions) ==
    [modules |-> << [Module(M_a, structs, functions) EXCEPT !.constants = constants] >>]

InitFail ==
    /\ \E constants \in ConstantLists, structs \in FailStructLists,
          functions \in FailFunctionLists :
          Idle(FailProgram(constants, structs, functions), FALSE)
    /\ LoopOff

SpecFail == InitFail /\ [][Next]_vars

\* -------------------------------------------------------------- tag family
\* a module of a struct S<T, U> { x: fty } and an entry function f<tps>
\* under the query directive that ends with move_to<rty>: the tag of fty is
\* built in builder mode over <T, U> and the tag of rty in runtime mode over
\* tps
N_V == <<"V">>
Unreachable == [k |-> "Unreachable"]

\* the type arguments: without type parameter, with one, and not resolved
TagArgs ==
    { Builtin("U64", <<>>),
      Builtin("Address", <<>>),
      Vector(Builtin("U8", <<>>)),
      Vector(Vector(Builtin("Bool", <<>>))),
      ModuleType(M_c, N_S, <<Builtin("U128", <<>>)>>),
      Param(N_T),
      Param(N_U),
      Vector(Param(N_U)),
      ModuleType(M_c, N_S, <<Param(N_T)>>),
      UnresolvedError,
      Unreachable,
      Vector(UnresolvedError),
      ModuleType(M_c, N_S, <<UnresolvedError>>) }

MaxTagArgs == 2

\* the types: V of up to MaxTagArgs type arguments
TagTypes ==
    UNION { {ModuleType(M_a, N_V, args) : args \in [1..n -> TagArgs]} : n \in 0..MaxTagArgs }

TagTypeParameters == {<<N_T, N_U>>, <<N_U, N_T>>, <<N_V, N_U, N_T>>}

TagProgram(fty, tps, rty) ==
    [modules |->
       << Module(M_a,
                 <<[Struct(N_S, <<Field(N_x, fty)>>, <<>>)
                       EXCEPT !.type_parameters = <<TParam(N_T), TParam(N_U)>>]>>,
                 <<[Function(N_f, <<Publish(rty)>>, <<QueryDirective>>) EXCEPT
                       !.entry = TRUE,
                       !.type_parameters = tps,
                       !.parameters = <<[name |-> N_p, ty |-> Ref(Signer)]>>]>>) >>]

\* the same type in both places, or a field of V and the type in the function
InitTag ==
    /\ \E rty \in TagTypes, fty \in TagTypes, tps \in TagTypeParameters :
          /\ fty \in {rty, ModuleType(M_a, N_V, <<>>)}
          /\ Idle(TagProgram(fty, tps, rty), FALSE)
    /\ LoopOff

SpecTag == InitTag /\ [][Next]_vars

\* ---------------------------------------------------------- printer family
\* a module of a struct S, native or not, whose method directive lists up to
\* two entries, and of the functions f and g; a function takes S by
\* reference, or a u64 (which validate_method refuses), and returns unit, a
\* u64 or S
StructS == ModuleType(M_a, N_S, <<>>)

PrinterFunctions(name) ==
    {[Function(name, <<>>, <<>>) EXCEPT
         !.parameters = <<[name |-> N_p, ty |-> first]>>,
         !.return_type = return_type] :
       first \in {Ref(StructS), U64},
       return_type \in {UnitType, SingleT(U64), SingleT(Base(StructS))}}

PrinterFunctionLists ==
    {<<f>> : f \in PrinterFunctions(N_f)}
    \cup {<<f, g>> : f \in PrinterFunctions(N_f), g \in PrinterFunctions(N_g)}

\* the entries of the directive, in key order: names of functions (h is not
\* one of the module), and an entry that is not a name
MethodEntries ==
    { <<>>,
      <<Attr("f", NameAttr(N_f))>>,
      <<Attr("g", NameAttr(N_g))>>,
      <<Attr("f", NameAttr(N_f)), Attr("g", NameAttr(N_g))>>,
      <<Attr("f", NameAttr(N_f)), Attr("h", NameAttr(N_h))>>,
      <<Attr("f", NameAttr(N_f)), Attr("g", Assigned(Bytearray("d")))>> }

PrinterProgram(native, entries, functions) ==
    [modules |->
       << Module(M_a,
                 <<[Struct(N_S,
                           IF native THEN <<>> ELSE <<Field(N_x, Builtin("U64", <<>>))>>,
                           <<Attr("method", Parameterized(entries))>>) EXCEPT
                       !.native = native]>>,
                 functions) >>]

InitPrinter ==
    /\ \E native \in BOOLEAN, entries \in MethodEntries, functions \in PrinterFunctionLists :
          Idle(PrinterProgram(native, entries, functions), FALSE)
    /\ LoopOff

SpecPrinter == InitPrinter /\ [][Next]_vars

\* -------------------------------------------------------- companion family
\* a module of a struct S and a function f under the query directive that
\* publishes S, entry or not, generic or not, of up to MaxCompanionParams
\* parameters: signers, values a payload can encode, and a struct
MaxCompanionParams == 3

CompanionParamTypes ==
    { Ref(Signer), U64, Base(Vector(Builtin("U8", <<>>))), Base(ModuleType(M_a, N_S, <<>>)) }

CompanionParameters ==
    UNION { {[i \in 1..k |-> [name |-> ParamNames[i], ty |-> tys[i]]] :
                tys \in [1..k -> CompanionParamTypes]} : k \in 0..MaxCompanionParams }

CompanionProgram(entry, tps, params) ==
    [modules |->
       << Module(M_a,
                 <<Struct(N_S, <<Field(N_x, Builtin("U64", <<>>))>>, <<>>)>>,
                 <<[Function(N_f, <<Publish(ModuleType(M_a, N_S, <<>>))>>, <<QueryDirective>>) EXCEPT
                       !.entry = entry,
                       !.type_parameters = tps,
                       !.parameters = params]>>) >>]

InitCompanion ==
    /\ \E entry \in BOOLEAN, tps \in {<<>>, <<N_T>>}, params \in CompanionParameters :
          Idle(CompanionProgram(entry, tps, params), FALSE)
    /\ LoopOff

SpecCompanion == InitCompanion /\ [][Next]_vars

\* ------------------------------------------------------------ record family
\* two modules translated in any order, each any number of times: module a
\* with a struct S (a method and a shown table, or no directive) and the
\* functions e (cmd and query) and f (a test that is the method of S),
\* module b with the function g (cmd, and a test), which may fail
N_e == <<"e">>
N_t == <<"t">>

RecordProgram(directives, fails) ==
    [modules |->
       << Module(M_a,
                 <<Struct(N_S,
                          <<Field(N_t, IterableTable2), Field(N_x, Builtin("U64", <<>>))>>,
                          IF directives
                          THEN <<Attr("method", Parameterized(<<Attr("f", NameAttr(N_f))>>)),
                                 ShowIterTable(<<N_t>>)>>
                          ELSE <<>>)>>,
                 <<[Function(N_e, <<Publish(StructS)>>,
                             IF directives THEN <<CmdDirective, QueryDirective>> ELSE <<>>) EXCEPT
                       !.entry = TRUE,
                       !.parameters = <<[name |-> N_p, ty |-> Ref(Signer)]>>],
                   [Function(N_f, <<>>, TestAttrs) EXCEPT
                       !.parameters = <<[name |-> N_p, ty |-> Ref(StructS)]>>,
                       !.return_type = SingleT(U64)]>>),
          Module(M_b, <<>>,
                 <<[Function(N_g, IF fails THEN <<Command(Jump)>> ELSE <<Run(N_v)>>,
                             <<CmdDirective, Attr("test", NameAttr(<<>>))>>) EXCEPT
                       !.entry = TRUE]>>) >>]

InitRecord ==
    /\ \E directives \in BOOLEAN, fails \in BOOLEAN, test \in BOOLEAN :
          Idle(RecordProgram(directives, fails), test)
    /\ LoopOff

SpecRecord == InitRecord /\ [][Next]_vars

\* ----------------------------------------------------------- forward family
\* a module of a struct S, generic or not, that lists the function f as its
\* method; f has the type parameters of S, takes S by reference and up to
\* two more parameters, returns unit or a u64, and is native or not
ForwardStruct(tps) == ModuleType(M_a, N_S, [i \in 1..Len(tps) |-> Param(tps[i])])

ForwardParameters(tps) ==
    { <<[name |-> N_p, ty |-> Ref(ForwardStruct(tps))]>> \o rest :
        rest \in { <<>>,
                   <<[name |-> N_x, ty |-> U64]>>,
                   <<[name |-> N_x, ty |-> U64],
                     [name |-> N_y, ty |-> Base(Builtin("Address", <<>>))]>> } }

ForwardProgram(tps, params, return_type, native) ==
    [modules |->
       << Module(M_a,
                 <<[Struct(N_S, <<Field(N_x, Builtin("U64", <<>>))>>,
                           <<Attr("method", Parameterized(<<Attr("f", NameAttr(N_f))>>))>>) EXCEPT
                       !.type_parameters = [i \in 1..Len(tps) |-> TParam(tps[i])]]>>,
                 <<[Function(N_f, <<>>, <<>>) EXCEPT
                       !.type_parameters = tps,
                       !.parameters = params,
                       !.return_type = return_type,
                       !.native = native]>>) >>]

InitForward ==
    /\ \E tps \in {<<>>, <<N_T>>, <<N_T, N_U>>}, return_type \in {UnitType, SingleT(U64)},
          native \in BOOLEAN :
          \E params \in ForwardParameters(tps) :
             Idle(ForwardProgram(tps, params, return_type, native), FALSE)
    /\ LoopOff

SpecForward == InitForward /\ [][Next]_vars

\* ------------------------------------------------- properties of the run
\* the last result of the run, if any
last_result == results[Len(results)][2]

\* C1: immediately after reset_for_module(m), whatever the Context held
\* before, current_module is m, both import sets and the test accumulator
\* are empty, and m and its package name are in the visited registries.
C1_ResetFrame ==
    pc = "reset" =>
        /\ c.current_module = Some(mdef.mident)
        /\ c.same_package_imports = {}
        /\ c.package_imports = {}
        /\ c.tests = <<>>
        /\ BTreeSet_contains(c.visited_modules, mdef.mident)
        /\ format_address(mdef.mident.address) \in BTreeMap_keys(c.visited_packages)

\* a reset of a Context that held imports and tests of an earlier module
C1_Witness ==
    /\ pc = "reset"
    /\ c.config.test
    /\ Len(results) > 0
    /\ results[Len(results)][1] = 2
    /\ last_result.ok
    /\ last_result.same_package_imports # <<>>
    /\ last_result.package_imports # <<>>
    /\ cur # 2

\* C2: over any sequence of translations, successful or failing, every module
\* of the visited-module registry and every package of the visited-package
\* registry is still there in the next state (so in every later one).
C2_RegistriesGrow ==
    [][ /\ \A m \in c.visited_modules : BTreeSet_contains(c'.visited_modules, m)
        /\ BTreeMap_keys(c.visited_packages) \subseteq BTreeMap_keys(c'.visited_packages)
      ]_vars

\* three translations, one of them failing, that visited both packages
C2_Witness ==
    /\ Len(results) = 3
    /\ \E i \in 1..3 : ~results[i][2].ok
    /\ Cardinality(c.visited_modules) = 3
    /\ Cardinality(BTreeMap_keys(c.visited_packages)) = 2

\* The references of function f of module a (module 1 of the run), and what
\* the three cases of name qualification say about them.
refs_of_a == [i \in 1..Len(c.program.modules[1].functions[1].body) |->
                 c.program.modules[1].functions[1].body[i].cmd.exp]
in_current_module(ref) == is_same_module(M_a, ref.m)
in_current_package(ref) ==
    ~in_current_module(ref) /\ is_same_package(M_a.address, ref.m.address)
in_other_package(ref) == ~in_current_module(ref) /\ ~in_current_package(ref)
package_of(ref) == format_address(ref.m.address)
qualified(ref) ==
    IF in_current_module(ref) THEN rename(ref.f)
    ELSE IF in_current_package(ref)
    THEN capitalize(ref.m.module) \o Dot \o rename(ref.f)
    ELSE capitalize(package_of(ref)) \o Dot \o capitalize(ref.m.module) \o Dot \o rename(ref.f)
\* the statements written for the body of the (one) function of the module
emitted_body == SelectSeq(w, LAMBDA item : item.k = "block")[1].stmts

\* C3: format_qualified_name gives a declaration of the current module its
\* bare name and records no import; a declaration of another module of the
\* current package Module.name, adding exactly that module to the
\* same-package imports; any other declaration Package.Module.name, adding
\* exactly that package to the cross-package imports; the other set is left
\* as it was.  Seen on module a once its function is translated: each
\* reference is printed by its case, and the two import sets hold exactly
\* what the references of their case added.
C3_QualifiedNames ==
    (pc = "finish" /\ cur = 1) =>
        /\ Len(emitted_body) = Len(refs_of_a)
        /\ \A i \in 1..Len(refs_of_a) : emitted_body[i].e = qualified(refs_of_a[i])
        /\ c.same_package_imports =
              {refs_of_a[i].m.module : i \in {j \in 1..Len(refs_of_a) : in_current_package(refs_of_a[j])}}
        /\ c.package_imports =
              {package_of(refs_of_a[i]) : i \in {j \in 1..Len(refs_of_a) : in_other_package(refs_of_a[j])}}

\* module a translated with a reference of two of the three cases, one of
\* them of a renamed declaration
C3_Witness ==
    /\ pc = "finish"
    /\ cur = 1
    /\ \E i, j \in 1..Len(refs_of_a) :
          /\ in_current_package(refs_of_a[i])
          /\ refs_of_a[i].f = N_new
          /\ in_other_package(refs_of_a[j])
          /\ ~AddressEq(refs_of_a[j].m.address, M_a.address)
    /\ c.same_package_imports # {}
    /\ c.package_imports # {}

\* the import list is in ascending order without repetition
sorted_imports(lines) ==
    \A i \in 1..(Len(lines) - 1) : StrLt(lines[i].from, lines[i + 1].from)

\* C4: two translations of one module in a run, whatever was translated
\* between and before them, return the same same-package import list and the
\* same cross-package import list, each sorted and without duplicates.
C4_SameImports ==
    /\ \A i, j \in 1..Len(results) :
          results[i][1] = results[j][1] =>
             /\ results[i][2].same_package_imports = results[j][2].same_package_imports
             /\ results[i][2].package_imports = results[j][2].package_imports
    /\ \A i \in 1..Len(results) :
          /\ sorted_imports(results[i][2].same_package_imports)
          /\ sorted_imports(results[i][2].package_imports)

\* module a translated, then module b, then module a again, with imports
C4_Witness ==
    /\ Len(results) = 3
    /\ results[1][1] = 1
    /\ results[2][1] = 2
    /\ results[3][1] = 1
    /\ results[2][2].same_package_imports # <<>>
    /\ Len(results[3][2].package_imports) = 2

\* ------------------------------------------ properties of function bodies
the_function == c.program.modules[1].functions[1]

RECURSIVE bound_by_pattern(_)
\* the variables an lvalue binds inside a destructuring pattern
bound_by_pattern(lvalue) ==
    IF lvalue.k # "Unpack" THEN {}
    ELSE UNION { IF lvalue.fields[i].k = "Var" THEN {lvalue.fields[i].var}
                 ELSE bound_by_pattern(lvalue.fields[i]) : i \in 1..Len(lvalue.fields) }

RECURSIVE bound_in_block(_)
\* ... anywhere in a block, nested blocks and while pre-blocks included
bound_in_block(block) ==
    UNION { CASE block[i].k = "Command" ->
                   IF block[i].cmd.k = "Assign"
                   THEN UNION { bound_by_pattern(block[i].cmd.lvalues[j]) :
                                   j \in 1..Len(block[i].cmd.lvalues) }
                   ELSE {}
              [] block[i].k = "IfElse" ->
                   bound_in_block(block[i].if_block) \cup bound_in_block(block[i].else_block)
              [] block[i].k = "While" ->
                   bound_in_block(block[i].pre_block) \cup bound_in_block(block[i].block)
              [] block[i].k = "Loop" -> bound_in_block(block[i].block)
            : i \in 1..Len(block) }

\* the locals that are no parameters and that no pattern binds, in order
expected_hoist ==
    SelectSeq(the_function.locals,
              LAMBDA v : /\ \A i \in 1..Len(the_function.parameters) :
                              the_function.parameters[i].name # v
                         /\ v \notin bound_in_block(the_function.body))

\* C5: the hoisted declaration of a function body lists exactly the
\* non-parameter locals that no destructuring pattern of the block binds
\* (nested blocks and while pre-blocks included); it is the first statement of
\* the body, and there is none when no such local exists.
C5_HoistedDeclaration ==
    pc = "finish" =>
        IF expected_hoist = <<>>
        THEN \A i \in 1..Len(emitted_body) : emitted_body[i].k # "let"
        ELSE /\ Len(emitted_body) >= 1
             /\ emitted_body[1] = [k |-> "let", names |-> expected_hoist]
             /\ \A i \in 2..Len(emitted_body) : emitted_body[i].k # "let"

\* a body whose while pre-block binds x by a pattern: only y is hoisted
C5_Witness ==
    /\ pc = "finish"
    /\ expected_hoist = <<N_y>>
    /\ \E i \in 1..Len(the_function.body) :
          /\ the_function.body[i].k = "While"
          /\ N_x \in bound_in_block(the_function.body[i].pre_block)
    /\ emitted_body[1].k = "let"

last_statement == the_function.body[Len(the_function.body)]
last_emitted == emitted_body[Len(emitted_body)]
discarded_unit == <<Command(IgnoreAndPop(Unit))>>

\* the body ends with a conditional whose true branch is empty or one
\* discarded unit, and whose false branch has statements
ends_with_else_only ==
    /\ the_function.body # <<>>
    /\ last_statement.k = "IfElse"
    /\ last_statement.if_block \in {<<>>, discarded_unit}
    /\ Len(last_statement.else_block) > 0

\* C6: a conditional whose true branch is empty, or only a discarded unit,
\* and whose false branch is not empty is written as a test of the negated
\* condition with the statements of the false branch, and no else.
C6_NegatedConditional ==
    (pc = "finish" /\ ends_with_else_only) =>
        last_emitted =
            [k |-> "if",
             test |-> [neg |-> TRUE, paren |-> FALSE, e |-> last_statement.cond.id],
             then |-> Statements_write_ts(last_statement.else_block,
                                          [state EXCEPT !.w = <<>>]).w,
             else |-> None]

\* such a conditional with a discarded unit for true branch and a false
\* branch that writes something
C6_Witness ==
    /\ pc = "finish"
    /\ ends_with_else_only
    /\ last_statement.if_block = discarded_unit
    /\ last_emitted.k = "if"
    /\ last_emitted.then # <<>>

\* --------------------------------------- properties of the emitted loop
\* the texts of the statements of the pre-block, in order
pre_names == [k \in 1..Len(unwrap(stmt).pre_block) |-> unwrap(stmt).pre_block[k].cmd.exp.id]
is_check(i) == trace[i].ev = "check"
is_pre(i) == trace[i].ev = "run" /\ \E k \in 1..Len(pre_names) : pre_names[k] = trace[i].e
is_body(i) == trace[i].ev = "run" /\ ~is_pre(i)
pre_index(i) == CHOOSE k \in 1..Len(pre_names) : pre_names[k] = trace[i].e

\* C7: in an execution of the loop emitted for a while with a pre-block,
\* whatever the number of rounds and however a round ends (continue
\* included): each test of the condition comes right after one whole run of
\* the pre-block, a statement of the pre-block runs only as part of such a
\* run, the body runs only after a test that was true, and the execution is
\* over at the first test that is false.
C7_PreBlockOncePerCheck ==
    LET n == Len(pre_names)
    IN  /\ \A i \in 1..Len(trace) :
              is_check(i) =>
                 /\ i > n
                 /\ \A k \in 1..n : trace[i - n + k - 1] = Ran(pre_names[k])
                 /\ trace[i].e = unwrap(stmt).cond.id
        /\ \A i \in 1..Len(trace) :
              is_pre(i) =>
                 /\ IF pre_index(i) = 1
                    THEN i = 1 \/ is_body(i - 1) \/ (is_check(i - 1) /\ trace[i - 1].v)
                    ELSE i > 1 /\ trace[i - 1] = Ran(pre_names[pre_index(i) - 1])
                 /\ i < Len(trace) =>
                       IF pre_index(i) = n THEN is_check(i + 1)
                       ELSE trace[i + 1] = Ran(pre_names[pre_index(i) + 1])
        /\ \A i \in 1..Len(trace) :
              is_body(i) => i > 1 /\ (is_body(i - 1) \/ (is_check(i - 1) /\ trace[i - 1].v))
        /\ \A i \in 1..Len(trace) :
              (is_check(i) /\ ~trace[i].v) => (i = Len(trace) /\ ip = <<>>)

\* an execution of two rounds, one of them ended by continue, that is over
\* after the third test
C7_Witness ==
    /\ code # None
    /\ ip = <<>>
    /\ Len(pre_names) = 2
    /\ unwrap(stmt).block = <<Run(N_b), Command([k |-> "Continue"])>>
    /\ checks = 3
    /\ Cardinality({i \in 1..Len(trace) : is_body(i)}) = 2
    /\ ~trace[Len(trace)].v

\* ----------------------------------------- properties of method directives
the_struct == c.program.modules[1].structs[1]
\* the function the method directive of the struct names
named_function == the_struct.attributes[1].value.inner[1].value.n
names_a_function == named_function = the_function.name
same_type_parameters ==
    /\ Len(the_function.type_parameters) = Len(the_struct.type_parameters)
    /\ \A i \in 1..Len(the_struct.type_parameters) :
          the_function.type_parameters[i] = the_struct.type_parameters[i].name
own_arguments ==
    [i \in 1..Len(the_struct.type_parameters) |-> Param(the_struct.type_parameters[i].name)]
\* the parameter's type, by value or by reference, is the struct applied to ..
applies_struct(ty) ==
    /\ ty.base.k = "ModuleType"
    /\ is_same_module(ty.base.m, c.program.modules[1].mident)
    /\ ty.base.s = the_struct.name
\* .. its own type parameters in their order
applies_struct_to_own(ty) == applies_struct(ty) /\ ty.base.args = own_arguments
first_result == results[1][2]

\* C8: a method directive that names a function whose parameter of the
\* struct's type applies the struct to other arguments than the struct's own
\* type parameters in their order makes the translation of the module fail
\* with a diagnostic, and no text is returned.
C8_MisappliedMethodFails ==
    ( /\ Len(results) > 0
      /\ names_a_function
      /\ \E i \in 1..Len(the_function.parameters) :
            applies_struct(the_function.parameters[i].ty)
      /\ \A i \in 1..Len(the_function.parameters) :
            ~applies_struct_to_own(the_function.parameters[i].ty) )
    => ( /\ ~first_result.ok
         /\ first_result.diags # <<>>
         /\ first_result.filename = <<>>
         /\ first_result.body = <<>> )

\* C9: a method directive is accepted exactly when it names a function of
\* the module that has the type parameters of the struct, by name and in
\* order, and at least one parameter whose type, by value or by reference, is
\* the struct applied to its own type parameters in their order; a
\* translation with a directive that is not accepted fails.
C9_MethodAcceptedExactly ==
    Len(results) > 0 =>
       ( first_result.ok <=>
            /\ names_a_function
            /\ same_type_parameters
            /\ \E i \in 1..Len(the_function.parameters) :
                  applies_struct_to_own(the_function.parameters[i].ty) )

\* the final statement of f's body returns the value of a move_to
returns_move_to ==
    /\ the_function.body # <<>>
    /\ last_statement.k = "Command"
    /\ last_statement.cmd.k = "Return"
    /\ last_statement.cmd.exp.k = "MoveTo"
\* f is an entry function with a body whose final statement publishes a struct
publishes_struct ==
    /\ the_function.entry
    /\ ~the_function.native
    /\ returns_move_to
    /\ last_statement.cmd.exp.ty.k = "ModuleType"
\* the query functions in the text of a translation
query_functions(res) == SelectSeq(res.body, LAMBDA item : item.k = "query_body")
\* the translations of the module that have got past its functions
past_functions == Len(results) + (IF pc = "finish" THEN 1 ELSE 0)

\* C10: under the query directive, an entry function whose body ends with a
\* returned move_to of a struct type S translates to a query function that
\* builds the payload of the function and decodes a value typed as S, and
\* each translation appends exactly one record to the queries; in every
\* other case (not entry, native, empty body, another final statement, a
\* published type that is not a struct) the translation fails, returns no
\* text and appends no record.
C10_QueryDirective ==
    /\ \A i \in 1..Len(results) :
          IF publishes_struct
          THEN /\ results[i][2].ok
               /\ Len(query_functions(results[i][2])) = 1
               /\ query_functions(results[i][2])[1].decode = last_statement.cmd.exp.ty.s
               /\ query_functions(results[i][2])[1].payload.fn = the_function.name
          ELSE /\ ~results[i][2].ok
               /\ results[i][2].body = <<>>
    /\ Len(c.queries) = IF publishes_struct THEN past_functions ELSE 0
    /\ \A i \in 1..Len(c.queries) :
          /\ c.queries[i].fname = the_function.name
          /\ c.queries[i].mi = c.program.modules[1].mident

C10_Witness ==
    /\ Len(results) = 2
    /\ publishes_struct
    /\ the_function.type_parameters # <<>>
    /\ Len(the_function.body) = 2
    /\ results[2][2].ok
    /\ Len(query_functions(results[2][2])) = 1
    /\ Len(c.queries) = 2

\* a translation that fails on the published type has written nothing down
C10_WitnessRejected ==
    /\ Len(results) = 1
    /\ the_function.entry
    /\ returns_move_to
    /\ last_statement.cmd.exp.ty.k = "Param"
    /\ ~first_result.ok
    /\ c.queries = <<>>

\* signer or &signer
is_signer_type(ty) == ty.base.k = "Builtin" /\ ty.base.b = "Signer"
is_atomic(base) == base.k = "Builtin" /\ base.b \in {"Bool", "Address", "U8", "U64", "U128"}
is_vector(base) == base.k = "Builtin" /\ base.b = "Vector"
\* an atomic, or a vector of atomics of one or two levels
payload_encodable(ty) ==
    \/ is_atomic(ty.base)
    \/ is_vector(ty.base) /\ is_atomic(ty.base.args[1])
    \/ /\ is_vector(ty.base)
       /\ is_vector(ty.base.args[1])
       /\ is_atomic(ty.base.args[1].args[1])
passes_shape_test ==
    /\ the_function.entry
    /\ \A i \in 1..Len(the_function.parameters) :
          \/ is_signer_type(the_function.parameters[i].ty)
          \/ payload_encodable(the_function.parameters[i].ty)
payload_builders(res) == SelectSeq(res.body, LAMBDA item : item.k = "payload_body")

\* C11: a payload builder is emitted for a function exactly when it is an
\* entry function whose every non-signer parameter is an atomic or a vector
\* of atomics of one or two levels; for any other function the builder is
\* left out and the translation still succeeds, without any error.
C11_PayloadBuilderExactly ==
    /\ pc # "panicked"
    /\ \A i \in 1..Len(results) :
          /\ results[i][2].ok
          /\ Len(payload_builders(results[i][2])) = (IF passes_shape_test THEN 1 ELSE 0)

non_signer_parameters ==
    SelectSeq(the_function.parameters, LAMBDA p : ~is_signer_type(p.ty))
non_signer_names ==
    [k \in 1..Len(non_signer_parameters) |-> non_signer_parameters[k].name]
encoded_names(builder) == [k \in 1..Len(builder.args) |-> builder.args[k].name]

\* C12: the payload builder of an entry function encodes exactly the
\* parameters that are not signer or &signer, one argument per parameter in
\* the order of declaration, wherever the signers stand, and its list of
\* type arguments is empty when the function has no type parameters.
C12_PayloadArguments ==
    \A i \in 1..Len(results) :
       \A j \in 1..Len(payload_builders(results[i][2])) :
          /\ encoded_names(payload_builders(results[i][2])[j]) = non_signer_names
          /\ the_function.type_parameters = <<>> =>
                payload_builders(results[i][2])[j].typeParamStrings = None
          /\ the_function.type_parameters # <<>> =>
                payload_builders(results[i][2])[j].typeParamStrings # None

\* transfer(from: signer, to: address, amount: u64) encodes [to, amount]
C12_Witness ==
    /\ Len(results) = 1
    /\ first_result.ok
    /\ the_function.entry
    /\ the_function.type_parameters = <<>>
    /\ [k \in 1..Len(the_function.parameters) |-> the_function.parameters[k].ty]
          = <<Base(Signer), Base(Builtin("Address", <<>>)), U64>>
    /\ Len(payload_builders(first_result)) = 1
    /\ encoded_names(payload_builders(first_result)[1]) = <<N_x, N_y>>
    /\ payload_builders(first_result)[1].typeParamStrings = None

native_calls(res) == SelectSeq(res.body, LAMBDA item : item.k = "native_call")
ordinary_arguments ==
    [k \in 1..Len(the_function.parameters) |-> the_function.parameters[k].name]

\* C13 (as the code has it): the delegating call emitted for a native body
\* forwards the ordinary arguments in the order of declaration, then the
\* runtime-context value, then, for a generic function only, the array of
\* type tags.
C13_NativeCallArguments ==
    \A i \in 1..Len(results) :
       (the_function.native /\ results[i][2].ok) =>
          /\ Len(native_calls(results[i][2])) = 1
          /\ native_calls(results[i][2])[1].args =
                ordinary_arguments \o <<CacheArg>>
                   \o (IF the_function.type_parameters # <<>> THEN <<TagsArg>> ELSE <<>>)

\* C13 (as stated): the ordinary arguments, then, for a generic function
\* only, the array of type tags, then the runtime-context value.
C13_TagsBeforeContext ==
    \A i \in 1..Len(results) :
       (the_function.native /\ results[i][2].ok) =>
          /\ Len(native_calls(results[i][2])) = 1
          /\ native_calls(results[i][2])[1].args =
                ordinary_arguments
                   \o (IF the_function.type_parameters # <<>> THEN <<TagsArg>> ELSE <<>>)
                   \o <<CacheArg>>

\* a generic native function of two parameters, translated
C13_Witness ==
    /\ Len(results) = 1
    /\ first_result.ok
    /\ the_function.native
    /\ the_function.type_parameters # <<>>
    /\ Len(the_function.parameters) = 2
    /\ Len(native_calls(first_result)) = 1
    /\ Len(native_calls(first_result)[1].args) = 4

the_structs == c.program.modules[1].structs
has_directive(sd, name) == \E j \in 1..Len(sd.attributes) : sd.attributes[j].name = name
directive(sd, name) ==
    sd.attributes[CHOOSE j \in 1..Len(sd.attributes) : sd.attributes[j].name = name]

\* C14: the translation of a module with a struct that carries the cmd
\* attribute, native or with fields, fails with a diagnostic.
C14_StructCmdFails ==
    \A i \in 1..Len(results) :
       (\E k \in 1..Len(the_structs) : has_directive(the_structs[k], "cmd")) =>
          /\ ~results[i][2].ok
          /\ results[i][2].diags # <<>>

\* a show_iter_table directive in the form the claim is about: a list of names
lists_fields(sd) ==
    /\ has_directive(sd, "show_iter_table")
    /\ ~has_directive(sd, "cmd")
    /\ directive(sd, "show_iter_table").value.k = "Parameterized"
    /\ \A j \in 1..Len(directive(sd, "show_iter_table").value.inner) :
          directive(sd, "show_iter_table").value.inner[j].value.k = "Name"
listed_fields(sd) ==
    [j \in 1..Len(directive(sd, "show_iter_table").value.inner) |->
        directive(sd, "show_iter_table").value.inner[j].value.n]
is_iterable_table(ty) ==
    /\ ty.k = "ModuleType"
    /\ ty.m.address.kind = "Numerical" /\ ty.m.address.num = 1
    /\ ty.m.module = IterableTableModule
    /\ ty.s = IterableTableName
    /\ Len(ty.args) = 2
\* every listed field is a field of a struct with fields, of the table type
shows_tables(sd) ==
    /\ ~sd.native
    /\ \A j \in 1..Len(listed_fields(sd)) :
          \E f \in 1..Len(sd.fields) :
             /\ sd.fields[f].name = listed_fields(sd)[j]
             /\ is_iterable_table(sd.fields[f].ty)

\* C15: a show_iter_table directive is accepted exactly when every listed
\* field exists, the struct is not native and the field's type is
\* IterableTable applied to two type arguments; any violation makes the
\* translation fail; records are added to the show-table accumulator only
\* by a directive that is accepted, one per listed field.
C15_ShowIterTable ==
    \A k \in 1..Len(the_structs) :
       lists_fields(the_structs[k]) =>
          /\ \A i \in 1..Len(results) : results[i][2].ok <=> shows_tables(the_structs[k])
          /\ ~shows_tables(the_structs[k]) => c.all_shows_iter_tables = <<>>
          /\ shows_tables(the_structs[k]) =>
                Len(c.all_shows_iter_tables) >= Len(results) * Len(listed_fields(the_structs[k]))

registry_builders(res) == SelectSeq(res.body, LAMBDA item : item.k = "loadParsers")

\* C19: the registry builder emitted for a module has, for every struct of
\* the module in the order of the structs and for nothing else, one entry
\* that pairs address::module::name with the static parser of the struct.
C19_RegistryBuilder ==
    \A i \in 1..Len(results) :
       results[i][2].ok =>
          /\ Len(registry_builders(results[i][2])) = 1
          /\ registry_builders(results[i][2])[1].entries =
                [k \in 1..Len(the_structs) |->
                    [key |-> <<to_hex_literal(c.program.modules[1].mident.address.num),
                               c.program.modules[1].mident.module,
                               the_structs[k].name>>,
                     parser |-> the_structs[k].name]]

\* a module of a native struct and a struct with fields
C19_Witness ==
    /\ Len(results) = 1
    /\ first_result.ok
    /\ Len(the_structs) = 2
    /\ the_structs[1].native
    /\ ~the_structs[2].native
    /\ Len(registry_builders(first_result)[1].entries) = 2

\* the text of a struct: from its class item up to the next declaration
StructEnds == {"class", "function_open", "loadParsers"}
class_at(body, name) ==
    CHOOSE i \in 1..Len(body) : body[i].k = "class" /\ body[i].name = name
struct_end(body, i) ==
    CHOOSE j \in (i + 1)..Len(body) :
       /\ body[j].k \in StructEnds
       /\ \A m \in (i + 1)..(j - 1) : body[m].k \notin StructEnds
struct_items(body, name) ==
    {body[m].k : m \in (class_at(body, name) + 1)..(struct_end(body, class_at(body, name)) - 1)}

\* C20: for a native struct only the list of type-parameter descriptors is
\* emitted, whatever its abilities: no field descriptors, field storage,
\* constructor, parser or loader; for a struct with fields the loader is
\* emitted exactly when key is among its abilities.
C20_NativeAndLoader ==
    \A i \in 1..Len(results) :
       results[i][2].ok =>
          \A k \in 1..Len(the_structs) :
             IF the_structs[k].native
             THEN struct_items(results[i][2].body, the_structs[k].name) = {"typeParameters"}
             ELSE "load" \in struct_items(results[i][2].body, the_structs[k].name)
                     <=> "key" \in the_structs[k].abilities

\* a native struct with key next to a struct with fields and key, and the
\* same with a struct with fields and without key
C20_Witness ==
    /\ Len(results) = 1
    /\ first_result.ok
    /\ Len(the_structs) = 2
    /\ the_structs[1].native
    /\ "key" \in the_structs[1].abilities
    /\ ~the_structs[2].native
    /\ "key" \in the_structs[2].abilities
    /\ "load" \in struct_items(first_result.body, the_structs[2].name)
    /\ struct_items(first_result.body, the_structs[1].name) = {"typeParameters"}


\* ---- the cmd directive of a function (cmd family)
cmd_attribute == directive(the_function, "cmd")
sub_attributes == IF cmd_attribute.value.k = "Parameterized" THEN cmd_attribute.value.inner ELSE <<>>
is_literal_string(attr) == attr.value.k = "Assigned" /\ attr.value.v.k = "Bytearray"
\* the desc sub-attribute is there and is not an assigned literal string
bad_desc ==
    \E j \in 1..Len(sub_attributes) :
       sub_attributes[j].name = "desc" /\ ~is_literal_string(sub_attributes[j])
\* the description given by the directive: the string of desc, empty when its
\* bytes are not UTF-8
description ==
    IF \E j \in 1..Len(sub_attributes) : sub_attributes[j].name = "desc"
    THEN LET bytes == (directive([attributes |-> sub_attributes], "desc")).value.v.s
         IN  Some(IF bytes = InvalidUtf8 THEN "" ELSE bytes)
    ELSE None
cmd_record(desc) ==
    [mi |-> c.program.modules[1].mident, fname |-> the_function.name,
     func |-> the_function, desc |-> desc]
\* the records of the cmd accumulator are n records of the function
cmd_records(n) ==
    /\ Len(c.cmds) = n
    /\ \A j \in 1..Len(c.cmds) : c.cmds[j] = cmd_record(description)
\* the cases in which the code takes the directive
accepted_cmd ==
    /\ the_function.entry
    /\ cmd_attribute.value.k \in {"Name", "Parameterized"}
    /\ \A j \in 1..Len(sub_attributes) :
          sub_attributes[j].name = "desc" /\ is_literal_string(sub_attributes[j])

\* C17: a cmd directive on a function that is not entry fails, and so does
\* one whose desc sub-attribute is not an assigned literal string; every
\* other cmd directive appends exactly one record (the module, the name and
\* the definition of the function, the description if any) to the cmds at
\* each translation, and a failing one appends none.
C17_CmdDirective ==
    has_directive(the_function, "cmd") =>
       IF ~the_function.entry \/ bad_desc
       THEN /\ \A i \in 1..Len(results) : ~results[i][2].ok
            /\ c.cmds = <<>>
       ELSE cmd_records(past_functions)

\* C17, with the cases the code fails as well: a cmd directive on a function
\* that is not entry fails, and so do one in the assigned form (cmd = ..),
\* one with a sub-attribute other than desc, and one whose desc is not an
\* assigned literal string; every other cmd directive appends exactly one
\* record (the module, the name and the definition of the function, the
\* description if any) to the cmds at each translation, and a failing one
\* appends none. The translation succeeds exactly when the directive is
\* taken and no query directive follows it on this empty body.
C17_CmdDirectiveTaken ==
    has_directive(the_function, "cmd") =>
       /\ IF accepted_cmd
          THEN cmd_records(past_functions)
          ELSE /\ \A i \in 1..Len(results) :
                     ~results[i][2].ok /\ Len(results[i][2].diags) = 1
               /\ c.cmds = <<>>
       /\ \A i \in 1..Len(results) :
             results[i][2].ok <=> (accepted_cmd /\ ~has_directive(the_function, "query"))

\* two translations of an entry function with #[cmd(desc = b"d")]
C17_Witness ==
    /\ Len(results) = 2
    /\ the_function.entry
    /\ the_function.attributes = <<Attr("cmd", Parameterized(<<Attr("desc", Assigned(Bytearray("d")))>>))>>
    /\ results[2][2].ok
    /\ c.cmds = <<cmd_record(Some("d")), cmd_record(Some("d"))>>

\* a failed translation of an entry function with #[cmd(other)]
C17_WitnessRejected ==
    /\ Len(results) = 1
    /\ the_function.entry
    /\ the_function.attributes = <<Attr("cmd", Parameterized(<<Attr("other", Assigned(Bytearray("d")))>>))>>
    /\ ~first_result.ok
    /\ first_result.diags = <<"Unrecognized parameter to cmd directive">>
    /\ c.cmds = <<>>


\* ---- failures of declarations (failure family)
the_module == c.program.modules[1]
\* a block with a command that is not supported: a jump, or a mutation
\* through a dereference
unsupported_command(cmd) ==
    cmd.k = "Jump" \/ (cmd.k = "Mutate" /\ cmd.lhs.k = "Dereference")
has_unsupported_command(block) ==
    \E j \in 1..Len(block) : block[j].k = "Command" /\ unsupported_command(block[j].cmd)
\* the declarations that fail, by their kind
failing_constants == {j \in 1..Len(the_module.constants) : has_unsupported_command(the_module.constants[j].value)}
failing_structs == {j \in 1..Len(the_module.structs) : has_directive(the_module.structs[j], "cmd")}
failing_functions == {j \in 1..Len(the_module.functions) : has_unsupported_command(the_module.functions[j].body)}
nothing_fails == failing_constants = {} /\ failing_structs = {} /\ failing_functions = {}
Min(S) == CHOOSE x \in S : \A y \in S : x <= y
\* the functions before the first failing declaration in the order
\* constants, structs, functions
functions_before_failure ==
    IF failing_constants # {} \/ failing_structs # {} THEN 0
    ELSE IF failing_functions # {} THEN Min(failing_functions) - 1
    ELSE Len(the_module.functions)

\* C16: when a constant, a struct or a function of the module fails to
\* translate, translate_module returns an error with exactly one diagnostic,
\* no file name and no text (nor imports), and the declarations after the
\* failing one are not translated: of the functions, each of which leaves a
\* cmd record when it is translated, only the ones before the failure have
\* left one. A module without a failing declaration translates.
C16_FailureAborts ==
    /\ \A i \in 1..Len(results) :
          /\ results[i][2].ok <=> nothing_fails
          /\ ~results[i][2].ok =>
                /\ Len(results[i][2].diags) = 1
                /\ results[i][2].filename = <<>>
                /\ results[i][2].body = <<>>
                /\ results[i][2].package_imports = <<>>
                /\ results[i][2].same_package_imports = <<>>
    /\ pc = "idle" => Len(c.cmds) = Len(results) * functions_before_failure

\* a failure at the second constant, with a struct and two functions after it
C16_Witness ==
    /\ Len(results) = 1
    /\ failing_constants = {2}
    /\ Len(the_module.structs) = 1
    /\ Len(the_module.functions) = 2
    /\ ~first_result.ok
    /\ first_result.diags = <<"Unsupported Command (Jump)">>
    /\ w # <<>>
    /\ c.cmds = <<>>

\* a failure at the second function, after a constant, a struct and a function
C16_WitnessFunction ==
    /\ Len(results) = 1
    /\ failing_constants = {} /\ failing_structs = {}
    /\ failing_functions = {2}
    /\ Len(the_module.constants) = 1
    /\ Len(the_module.structs) = 1
    /\ ~first_result.ok
    /\ Len(c.cmds) = 1

RECURSIVE is_constant_type(_)
\* the types a constant can have: builtin ones, and vectors of them
is_constant_type(ty) ==
    /\ ty.k = "Builtin"
    /\ ty.b = "Vector" => is_constant_type(ty.args[1])
untranslatable_constants == {j \in 1..Len(the_module.constants) : ~is_constant_type(the_module.constants[j].signature)}

\* C18: the translation of a module with a constant whose type is not a
\* constant type (not builtin, a type parameter, unresolved; at top level or
\* as the element of a vector), or with an unsupported command (a jump, a
\* mutation through a dereference), returns an error with a diagnostic; the
\* run never ends abnormally.
C18_NotTranslatable ==
    /\ pc # "panicked"
    /\ \A i \in 1..Len(results) :
          (untranslatable_constants # {} \/ failing_constants # {} \/ failing_functions # {}) =>
             ~results[i][2].ok /\ Len(results[i][2].diags) = 1


\* ---- conditionals with a true branch (body family)
\* the body ends with a conditional whose true branch is neither empty nor
\* one discarded unit
ends_with_if ==
    /\ the_function.body # <<>>
    /\ last_statement.k = "IfElse"
    /\ ~is_empty_block(last_statement.if_block)
\* the text of a branch
branch_text(block) == Statements_write_ts(block, [state EXCEPT !.w = <<>>]).w
\* the statement emitted for the last conditional tests the condition as it
\* is, over the text of the true branch
tests_condition ==
    /\ last_emitted.k = "if"
    /\ last_emitted.test = [neg |-> FALSE, paren |-> FALSE, e |-> last_statement.cond.id]
    /\ last_emitted.then = branch_text(last_statement.if_block)

\* C21: a conditional whose true branch is not empty (a true branch of one
\* discarded unit counts as empty) is written as a test of the condition as
\* it is, with the true branch, and with an else that holds the false branch
\* exactly when the false branch is not empty in the same sense.
C21_ElseUnlessEmpty ==
    (pc = "finish" /\ ends_with_if) =>
        /\ tests_condition
        /\ last_emitted.else =
              IF ~is_empty_block(last_statement.else_block)
              THEN Some(branch_text(last_statement.else_block))
              ELSE None

\* C21, with the test the code makes: a conditional whose true branch is not
\* empty (a true branch of one discarded unit counts as empty) is written as
\* a test of the condition as it is, with the true branch, and with an else
\* that holds the false branch exactly when the false branch has at least
\* one statement: a false branch of one discarded unit gets an else with no
\* text.
C21_ElseIfStatements ==
    (pc = "finish" /\ ends_with_if) =>
        /\ tests_condition
        /\ last_emitted.else =
              IF Len(last_statement.else_block) > 0
              THEN Some(branch_text(last_statement.else_block))
              ELSE None

\* a conditional with text in both branches
C21_Witness ==
    /\ pc = "finish"
    /\ ends_with_if
    /\ last_emitted.then # <<>>
    /\ last_emitted.else # None
    /\ unwrap(last_emitted.else) # <<>>

\* a conditional whose false branch is one discarded unit: an else, no text
C21_WitnessEmptyElse ==
    /\ pc = "finish"
    /\ ends_with_if
    /\ last_statement.else_block = discarded_unit
    /\ last_emitted.else = Some(<<>>)

\* a conditional without a false branch: no else
C21_WitnessNoElse ==
    /\ pc = "finish"
    /\ ends_with_if
    /\ last_statement.else_block = <<>>
    /\ last_emitted.else = None


\* ---- the two modes of the type tags (tag family)
field_type == the_module.structs[1].fields[1].ty
published_type == the_function.body[1].cmd.exp.ty
struct_type_parameters ==
    [j \in 1..Len(the_module.structs[1].type_parameters) |->
        the_module.structs[1].type_parameters[j].name]
field_tag(res) == SelectSeq(res.body, LAMBDA item : item.k = "field_decl")[1].ty
output_tag(res) == SelectSeq(res.body, LAMBDA item : item.k = "query_body")[1].outputTypeTag

RECURSIVE has_type_parameter(_)
has_type_parameter(ty) ==
    \/ ty.k = "Param"
    \/ /\ ty.k \in {"Builtin", "ModuleType"}
       /\ \E j \in 1..Len(ty.args) : has_type_parameter(ty.args[j])

RECURSIVE is_unresolved(_)
is_unresolved(ty) ==
    \/ ty.k \notin {"Param", "Builtin", "ModuleType"}
    \/ /\ ty.k \in {"Builtin", "ModuleType"}
       /\ \E j \in 1..Len(ty.args) : is_unresolved(ty.args[j])

RECURSIVE tag_of(_)
\* the tag of a type, with the type parameters by their names
tag_of(ty) ==
    CASE ty.k = "Param" -> [t |-> "Param", name |-> ty.name]
      [] ty.k = "Builtin" /\ ty.b = "Vector" -> [t |-> "Vector", inner |-> tag_of(ty.args[1])]
      [] ty.k = "Builtin" /\ ty.b # "Vector" -> [t |-> "Atomic", b |-> ty.b]
      [] ty.k = "ModuleType" ->
            [t |-> "Struct", address |-> format_address_hex(ty.m.address),
             module |-> ty.m.module, name |-> ty.s,
             tparams |-> [j \in 1..Len(ty.args) |-> tag_of(ty.args[j])]]

RECURSIVE by_name(_, _, _)
\* a tag in which the ordinals written in one mode ("TypeParamIdx" or "p")
\* are replaced by the names at these ordinals of a type-parameter list
by_name(tag, mode, names) ==
    CASE tag.t = mode ->
            IF tag.idx + 1 \in 1..Len(names)
            THEN [t |-> "Param", name |-> names[tag.idx + 1]] ELSE tag
      [] tag.t = "Vector" -> [tag EXCEPT !.inner = by_name(@, mode, names)]
      [] tag.t = "Struct" ->
            [tag EXCEPT !.tparams = [j \in 1..Len(@) |-> by_name(@[j], mode, names)]]
      [] OTHER -> tag

\* C22: the tag built in builder mode for the type of a field of S and the
\* tag built in runtime mode for the type f publishes are each the tag of
\* the type, with a type parameter written as its ordinal in the type
\* parameters of S (builder mode) or of f (runtime mode); for one type in
\* both places the tags are equal exactly when the type has no type
\* parameter; and when a type holds a node that is not resolved, in either
\* mode, the translation fails with the diagnostic of an unresolved type.
C22_TagModes ==
    \A i \in 1..Len(results) :
       IF is_unresolved(field_type) \/ is_unresolved(published_type)
       THEN /\ ~results[i][2].ok
            /\ results[i][2].diags = <<"Received Unresolved Type">>
       ELSE /\ results[i][2].ok
            /\ by_name(field_tag(results[i][2]), "TypeParamIdx", struct_type_parameters)
                  = tag_of(field_type)
            /\ by_name(output_tag(results[i][2]), "p", the_function.type_parameters)
                  = tag_of(published_type)
            /\ field_type = published_type =>
                  ((field_tag(results[i][2]) = output_tag(results[i][2]))
                      <=> ~has_type_parameter(published_type))

\* one type with the type parameter T in both places: ordinal 0 in S<T, U>,
\* ordinal 2 in f<V, U, T>
C22_Witness ==
    /\ Len(results) = 1
    /\ first_result.ok
    /\ the_function.type_parameters = <<N_V, N_U, N_T>>
    /\ field_type = published_type
    /\ published_type = ModuleType(M_a, N_V, <<ModuleType(M_c, N_S, <<Param(N_T)>>), Builtin("U64", <<>>)>>)
    /\ field_tag(first_result).tparams[1].tparams = <<[t |-> "TypeParamIdx", idx |-> 0]>>
    /\ output_tag(first_result).tparams[1].tparams = <<[t |-> "p", idx |-> 2]>>
    /\ field_tag(first_result).tparams[2] = output_tag(first_result).tparams[2]

\* a type with an unresolved node that only the runtime mode sees
C22_WitnessUnresolved ==
    /\ Len(results) = 1
    /\ ~is_unresolved(field_type)
    /\ published_type = ModuleType(M_a, N_V, <<Vector(UnresolvedError)>>)
    /\ ~first_result.ok


\* ---- printer methods (printer family)
method_entries == (directive(the_struct, "method")).value.inner
function_named(name) ==
    the_module.functions[CHOOSE j \in 1..Len(the_module.functions) :
                            the_module.functions[j].name = name]
\* entry j is the name of a function of the module that takes S first
entry_is_valid(j) ==
    /\ method_entries[j].value.k = "Name"
    /\ \E k \in 1..Len(the_module.functions) :
          the_module.functions[k].name = method_entries[j].value.n
    /\ (function_named(method_entries[j].value.n)).parameters[1].ty.base = StructS
\* entry j is expanded: the struct is not native, and no entry up to j fails
is_expanded(j) == ~the_struct.native /\ \A k \in 1..j : entry_is_valid(k)
\* the entries that leave a record: the expanded ones of a function that
\* returns a value
printing_entries ==
    SelectSeq([j \in 1..Len(method_entries) |-> j],
              LAMBDA j : /\ is_expanded(j)
                         /\ (function_named(method_entries[j].value.n)).return_type # UnitType)
printer_record(j) ==
    [mi |-> the_module.mident, sname |-> the_struct.name, sdef |-> the_struct,
     fname |-> method_entries[j].value.n,
     sig |-> signature(function_named(method_entries[j].value.n))]
\* the translations of the struct so far
past_structs == Len(results) + (IF pc \in {"functions", "finish"} THEN 1 ELSE 0)

\* C23: each translation of the struct appends to the printer methods one
\* record (module, struct, definition, function name, signature) for every
\* entry of its method directive that is expanded and whose function does
\* not return unit, in the order of the entries, and nothing else: no record
\* for an expanded entry of a function that returns unit, none for an entry
\* that fails validation, none for the entries after it.
C23_PrinterMethods ==
    /\ Len(c.printer_methods) = past_structs * Len(printing_entries)
    /\ \A n \in 1..Len(c.printer_methods) :
          c.printer_methods[n] =
             printer_record(printing_entries[((n - 1) % Len(printing_entries)) + 1])
    /\ \A i \in 1..Len(results) :
          results[i][2].ok <=>
             (the_struct.native \/ \A j \in 1..Len(method_entries) : entry_is_valid(j))

\* f returns unit and g returns S, both are methods: one record, of g
C23_Witness ==
    /\ Len(results) = 1
    /\ first_result.ok
    /\ ~the_struct.native
    /\ Len(method_entries) = 2
    /\ is_expanded(2)
    /\ (function_named(N_f)).return_type = UnitType
    /\ (function_named(N_g)).return_type = SingleT(Base(StructS))
    /\ Len(c.printer_methods) = 1
    /\ c.printer_methods[1].fname = N_g

\* g returns a value and fails validation: no record
C23_WitnessRejected ==
    /\ Len(results) = 1
    /\ ~first_result.ok
    /\ method_entries = <<Attr("g", NameAttr(N_g))>>
    /\ Len(the_module.functions) = 2
    /\ (function_named(N_g)).return_type # UnitType
    /\ (function_named(N_g)).parameters[1].ty = U64
    /\ c.printer_methods = <<>>


\* ---- the parsers the registry names (struct family)
\* the structs for which the text holds a static parser
emitted_parsers(res) ==
    {res.body[j].name : j \in {n \in 1..Len(res.body) : res.body[n].k = "parser"}}

\* C24: in the text of a module that translates, every parser that the
\* registry builder registers is the static parser of a struct of the
\* module that the text holds.
C24_RegisteredParsersEmitted ==
    \A i \in 1..Len(results) :
       results[i][2].ok =>
          \A n \in 1..Len(registry_builders(results[i][2])[1].entries) :
             registry_builders(results[i][2])[1].entries[n].parser
                \in emitted_parsers(results[i][2])


\* ---- the query function and the payload builder (companion family)
\* the positions of the items of one kind in a text
positions(body, kind) == {n \in 1..Len(body) : body[n].k = kind}
\* the parameters that the payload builder opened at position n declares
declared_parameters(body, n) ==
    LET end == CHOOSE m \in positions(body, "payload_body") :
                  m > n /\ \A m2 \in positions(body, "payload_body") : m2 > n => m <= m2
        items == SelectSeq(SubSeq(body, n + 1, end - 1),
                           LAMBDA item : item.k \in {"param", "payload_tags"})
    IN  [j \in 1..Len(items) |-> IF items[j].k = "param" THEN items[j].name ELSE TagsArg]

\* C25: in the text of a module that translates, for every query function
\* there is a payload builder of the same function, and the arguments that
\* the query function passes are the parameters the builder declares, in
\* order.
C25_CompanionHasBuilder ==
    \A i \in 1..Len(results) :
       \A j \in 1..Len(query_functions(results[i][2])) :
          \E n \in positions(results[i][2].body, "payload_open") :
             /\ results[i][2].body[n].name = query_functions(results[i][2])[j].payload.fn
             /\ declared_parameters(results[i][2].body, n)
                   = query_functions(results[i][2])[j].payload.args


\* ---- the records of a module that fails
\* C26: a translation that fails leaves the cmds, the queries, the printer
\* methods and the shown tables as they were before the call; so, between
\* two translations of a run in which every translation has failed, the
\* four accumulators are empty, as they were at the start.
C26_FailureLeavesNoRecord ==
    (pc = "idle" /\ \A i \in 1..Len(results) : ~results[i][2].ok) =>
        /\ c.cmds = <<>>
        /\ c.queries = <<>>
        /\ c.printer_methods = <<>>
        /\ c.all_shows_iter_tables = <<>>


\* ---- the declarations of the locals (body family)
RECURSIVE assignments_in(_)
\* the assignments of an emitted text, nested statements included
assignments_in(items) ==
    UNION { CASE items[n].k = "assign" -> {items[n]}
              [] items[n].k = "if" ->
                   assignments_in(items[n].then)
                      \cup (IF items[n].else = None THEN {}
                            ELSE assignments_in(unwrap(items[n].else)))
              [] items[n].k = "while" -> assignments_in(items[n].body)
              [] items[n].k = "block" -> assignments_in(items[n].stmts)
              [] OTHER -> {}
            : n \in 1..Len(items) }

RECURSIVE variables_of(_)
\* the variables that the left-hand values of an assignment give a value
variables_of(lvalues) ==
    UNION { CASE lvalues[n].k = "Var" -> {lvalues[n].var}
              [] lvalues[n].k = "Unpack" -> variables_of(lvalues[n].fields)
              [] OTHER -> {}
            : n \in 1..Len(lvalues) }

non_parameter_locals ==
    {the_function.locals[n] : n \in 1..Len(the_function.locals)}
       \ {the_function.parameters[n].name : n \in 1..Len(the_function.parameters)}
\* v is in the declaration at the entry of the body
is_hoisted(v) ==
    /\ emitted_body # <<>>
    /\ emitted_body[1].k = "let"
    /\ \E n \in 1..Len(emitted_body[1].names) : emitted_body[1].names[n] = v
\* an assignment written with let gives v a value
is_let_declared(v) ==
    \E a \in assignments_in(emitted_body) : a.decl /\ v \in variables_of(a.lhs)
\* an assignment written without let gives v a value
is_assigned_bare(v) ==
    \E a \in assignments_in(emitted_body) : ~a.decl /\ v \in variables_of(a.lhs)

\* C27: in the text of a function body, every local that is no parameter is
\* either in the declaration at the entry of the body, or given its value
\* only by assignments that are written with let; none is in both, and none
\* is in neither.
C27_DeclaredOneWay ==
    pc = "finish" =>
        \A v \in non_parameter_locals :
           /\ ~(is_hoisted(v) /\ is_let_declared(v))
           /\ ~is_hoisted(v) => (is_let_declared(v) /\ ~is_assigned_bare(v))


\* ---- the accumulators over the modules of a run (record family)
\* seq is the beginning of seq2
is_prefix(seq, seq2) == Len(seq) <= Len(seq2) /\ SubSeq(seq2, 1, Len(seq)) = seq
\* the functions of the module that current_module names
current_functions ==
    LET mod == unwrap(modules_get(c.program, unwrap(c.current_module)))
    IN  {mod.functions[n].name : n \in 1..Len(mod.functions)}

\* C28: the step of reset_for_module leaves the cmds, the queries, the
\* printer methods, the shown tables, the program and the configuration as
\* they are; in every step these four accumulators keep what they hold
\* (they only grow), over the translations of all the modules; and the
\* tests are at any time tests of functions of the current module only.
C28_AccumulatorsOverModules ==
    /\ [][ /\ (pc = "idle" /\ pc' = "reset") =>
                 /\ c'.cmds = c.cmds
                 /\ c'.queries = c.queries
                 /\ c'.printer_methods = c.printer_methods
                 /\ c'.all_shows_iter_tables = c.all_shows_iter_tables
                 /\ c'.program = c.program
                 /\ c'.config = c.config
           /\ is_prefix(c.cmds, c'.cmds)
           /\ is_prefix(c.queries, c'.queries)
           /\ is_prefix(c.printer_methods, c'.printer_methods)
           /\ is_prefix(c.all_shows_iter_tables, c'.all_shows_iter_tables) ]_vars
    /\ [](\A n \in 1..Len(c.tests) : c.tests[n].fname \in current_functions)

\* module b is being translated after module a: the records of a are all
\* there, with the cmd of b, and the tests hold the test of b only
C28_Witness ==
    /\ c.config.test
    /\ Len(results) = 1
    /\ results[1][1] = 1
    /\ results[1][2].ok
    /\ cur = 2
    /\ pc = "finish"
    /\ Len(c.cmds) = 2
    /\ Len(c.queries) = 1
    /\ Len(c.printer_methods) = 1
    /\ Len(c.all_shows_iter_tables) = 1
    /\ Len(c.tests) = 1
    /\ c.tests[1].fname = N_g

\* the reset for module b, right after module a: the records stay, the test
\* of a is gone
C28_WitnessReset ==
    /\ c.config.test
    /\ Len(results) = 1
    /\ results[1][1] = 1
    /\ cur = 2
    /\ pc = "reset"
    /\ Len(c.cmds) = 1
    /\ Len(c.printer_methods) = 1
    /\ c.tests = <<>>


\* ---- the forwarders and the function they call (forward family)
\* the parameters that the function opened at position n of a text
\* declares: the names, the runtime context, the type tags
function_parameters(body, n) ==
    LET end == CHOOSE m \in positions(body, "returns") :
                  m > n /\ \A m2 \in positions(body, "returns") : m2 > n => m <= m2
        items == SubSeq(body, n + 1, end - 1)
    IN  [j \in 1..Len(items) |->
            CASE items[j].k = "param" -> items[j].name
              [] items[j].k = "param_cache" -> CacheArg
              [] items[j].k = "param_tags" -> TagsArg]
\* the parameters of the function named name
parameters_of(body, name) ==
    function_parameters(body, CHOOSE n \in positions(body, "function_open") : body[n].name = name)
\* the arguments of a method of the class, as the function sees them: this
\* is the struct, cache the runtime context, tags the type tags
as_seen_by_function(args, first) ==
    [j \in 1..Len(args) |->
        CASE args[j] = ThisArg -> first
          [] args[j] = CacheVar -> CacheArg
          [] args[j] = TagsVar -> TagsArg
          [] OTHER -> args[j]]
method_calls(res) == SelectSeq(res.body, LAMBDA item : item.k = "method_body")

\* C29: in the text of a module, the call that a method of the class of S
\* forwards to the function f passes this, the other parameters of f, the
\* cache and, for a generic f only, the tags, which is position by position
\* the list of parameters that the text declares for f (the parameters, the
\* runtime context, the type tags if generic); and the call that a native f
\* delegates to passes the parameters f declares, in that same order.
C29_ForwardersAgree ==
    \A i \in 1..Len(results) :
       results[i][2].ok =>
          /\ Len(method_calls(results[i][2])) = 1
          /\ method_calls(results[i][2])[1].callee = the_function.name
          /\ method_calls(results[i][2])[1].args[1] = ThisArg
          /\ as_seen_by_function(method_calls(results[i][2])[1].args,
                                 the_function.parameters[1].name)
                = parameters_of(results[i][2].body, the_function.name)
          /\ \A j \in 1..Len(native_calls(results[i][2])) :
                native_calls(results[i][2])[j].args
                   = parameters_of(results[i][2].body, the_function.name)
          /\ Len(native_calls(results[i][2])) = (IF the_function.native THEN 1 ELSE 0)

\* a generic native function of three parameters that is a method of S
C29_Witness ==
    /\ Len(results) = 1
    /\ first_result.ok
    /\ the_function.native
    /\ the_function.type_parameters = <<N_T, N_U>>
    /\ Len(the_function.parameters) = 3
    /\ method_calls(first_result)[1].args = <<ThisArg, N_x, N_y, CacheVar, TagsVar>>
    /\ native_calls(first_result)[1].args = <<N_p, N_x, N_y, CacheArg, TagsArg>>
    /\ parameters_of(first_result.body, N_f) = <<N_p, N_x, N_y, CacheArg, TagsArg>>


\* ---- the signature of the function being translated (failure family)
\* a translation has failed in one of the functions of its module
failed_in_function ==
    /\ \E i \in 1..Len(results) : ~results[i][2].ok
    /\ failing_constants = {}
    /\ failing_structs = {}

\* C30: current_function_signature holds a signature only while a function
\* is translated: between the translations of two declarations, and between
\* two translations, it is None; this includes the states after a
\* translation failed in a function, and the begin of the next translation,
\* where the constants and the structs of the module are translated.
C30_SignatureOnlyInFunction ==
    pc \in {"idle", "reset", "structs", "functions", "finish"}
       => c.current_function_signature = None

\* as far as no translation failed in a function, the signature is None
\* between the declarations
C30_SignatureClearedOnSuccess ==
    (pc \in {"idle", "reset", "structs", "functions", "finish"} /\ ~failed_in_function)
       => c.current_function_signature = None

\* the structs of a module are translated under the signature of the
\* function in which an earlier translation failed
C30_StaleAtStructs ==
    /\ pc = "structs"
    /\ failed_in_function
    /\ c.current_function_signature # None

====
